---- MODULE Spec2Model ----
(***************************************************************************)
(* A state-machine model of the AI camera application: the key-value       *)
(* storage, the settings screen (credential store), the completion client  *)
(* (OpenAIService), the camera screen with its history append, the camera  *)
(* view (manual and periodic capture) and the history screen.              *)
(*                                                                         *)
(* Text that the code inspects character by character (credentials, error  *)
(* messages) is a sequence of one-character strings; a character outside   *)
(* ASCII is written as its code point, "U+30AD".  Numbers that the code    *)
(* keeps as fractions (confidences) are kept in hundredths.                *)
(***************************************************************************)
EXTENDS Integers, Sequences, FiniteSets, TLC

(***************************************************************************)
(* Error messages and the needles processCurrentFrame looks for in them.   *)
(***************************************************************************)
\* src/unnamed/part_001:38 (one element per character; U+XXXX is a code point)
MsgNotConfigured ==
  <<
    "O", "p", "e", "n", "A", "I", " ", "A", "P", "I", " ", "k", "e", "y",
    " ", "n", "o", "t", " ", "s", "e", "t"
  >>

\* src/unnamed/part_001:83 (one element per character; U+XXXX is a code point)
MsgInvalidKey ==
  <<
    "A", "P", "I", "U+30AD", "U+30FC", "U+304C", "U+7121", "U+52B9",
    "U+3067", "U+3059", "U+3002", "U+6B63", "U+3057", "U+3044", "O", "p",
    "e", "n", "A", "I", " ", "A", "P", "I", "U+30AD", "U+30FC", "U+3092",
    "U+8A2D", "U+5B9A", "U+3057", "U+3066", "U+304F", "U+3060", "U+3055",
    "U+3044", "U+3002"
  >>

\* src/unnamed/part_001:86 (one element per character; U+XXXX is a code point)
MsgQuota ==
  <<
    "O", "p", "e", "n", "A", "I", " ", "A", "P", "I", "U+306E", "U+5229",
    "U+7528", "U+67A0", "U+3092", "U+8D85", "U+904E", "U+3057", "U+307E",
    "U+3057", "U+305F", "U+3002", "U+30D7", "U+30E9", "U+30F3", "U+3068",
    "U+8ACB", "U+6C42", "U+8A73", "U+7D30", "U+3092", "U+78BA", "U+8A8D",
    "U+3057", "U+3066", "U+304F", "U+3060", "U+3055", "U+3044", "U+3002"
  >>

\* src/unnamed/part_001:88 (one element per character; U+XXXX is a code point)
MsgRateLimit ==
  <<
    "A", "P", "I", "U+5229", "U+7528", "U+5236", "U+9650", "U+306B",
    "U+9054", "U+3057", "U+307E", "U+3057", "U+305F", "U+3002", "U+3057",
    "U+3070", "U+3089", "U+304F", "U+5F85", "U+3063", "U+3066", "U+304B",
    "U+3089", "U+518D", "U+8A66", "U+884C", "U+3057", "U+3066", "U+304F",
    "U+3060", "U+3055", "U+3044", "U+3002"
  >>

\* src/unnamed/part_001:91 (one element per character; U+XXXX is a code point)
MsgForbidden ==
  <<
    "A", "P", "I", "U+30A2", "U+30AF", "U+30BB", "U+30B9", "U+304C",
    "U+62D2", "U+5426", "U+3055", "U+308C", "U+307E", "U+3057", "U+305F",
    "U+3002", "A", "P", "I", "U+30AD", "U+30FC", "U+306E", "U+6A29",
    "U+9650", "U+3092", "U+78BA", "U+8A8D", "U+3057", "U+3066", "U+304F",
    "U+3060", "U+3055", "U+3044", "U+3002"
  >>

\* src/unnamed/part_001:93 (one element per character; U+XXXX is a code point)
MsgApiErrorPrefix ==
  <<
    "A", "P", "I", " ", "e", "r", "r", "o", "r", ":", " "
  >>

\* src/unnamed/part_001:93 (one element per character; U+XXXX is a code point)
MsgApiErrorSep ==
  <<
    " ", "-", " "
  >>

\* src/unnamed/part_001:93 (one element per character; U+XXXX is a code point)
MsgUnknownError ==
  <<
    "U", "n", "k", "n", "o", "w", "n", " ", "e", "r", "r", "o", "r"
  >>

\* src/unnamed/part_002:101 (one element per character; U+XXXX is a code point)
MsgOcrFailed ==
  <<
    "U+30C6", "U+30AD", "U+30B9", "U+30C8", "U+8A8D", "U+8B58", "U+306B",
    "U+5931", "U+6557", "U+3057", "U+307E", "U+3057", "U+305F"
  >>

\* src/unnamed/part_002:51 (one element per character; U+XXXX is a code point)
MsgOcrInitFailed ==
  <<
    "O", "C", "R", "U+306E", "U+521D", "U+671F", "U+5316", "U+306B",
    "U+5931", "U+6557", "U+3057", "U+307E", "U+3057", "U+305F"
  >>

\* src/unnamed/part_002:66 (one element per character; U+XXXX is a code point)
MsgOcrNoWorker ==
  <<
    "O", "C", "R", "U+30EF", "U+30FC", "U+30AB", "U+30FC", "U+304C",
    "U+521D", "U+671F", "U+5316", "U+3055", "U+308C", "U+3066", "U+3044",
    "U+307E", "U+305B", "U+3093"
  >>

\* src/unnamed/part_003:129 (one element per character; U+XXXX is a code point)
NeedleRateLimit ==
  <<
    "A", "P", "I", "U+5229", "U+7528", "U+5236", "U+9650"
  >>

\* src/unnamed/part_003:129 (one element per character; U+XXXX is a code point)
NeedleInvalidKey ==
  <<
    "A", "P", "I", "U+30AD", "U+30FC", "U+304C", "U+7121", "U+52B9"
  >>

\* Messages the platform produces (fetch, Response.json, property access).
MsgNetworkFailed ==
  <<"N", "e", "t", "w", "o", "r", "k", " ", "r", "e", "q", "u", "e", "s", "t",
    " ", "f", "a", "i", "l", "e", "d">>

MsgJsonParse ==
  <<"J", "S", "O", "N", " ", "P", "a", "r", "s", "e", " ", "e", "r", "r", "o",
    "r">>

MsgCannotRead ==
  <<"C", "a", "n", "n", "o", "t", " ", "r", "e", "a", "d", " ", "p", "r", "o",
    "p", "e", "r", "t", "y">>

(***************************************************************************)
(* Bounds of the model.                                                    *)
(***************************************************************************)
\* Longest credential text typed into the settings screen.

(***************************************************************************)
(* String.prototype.includes / startsWith / trim on character sequences.   *)
(***************************************************************************)
StartsWith(s, p) ==
  /\ Len(s) >= Len(p)
  /\ SubSeq(s, 1, Len(p)) = p

Includes(s, needle) ==
  \E i \in 1..(Len(s) - Len(needle) + 1) :
    SubSeq(s, i, i + Len(needle) - 1) = needle

IsSpace(c) == c \in {" ", "U+000A"}

RECURSIVE TrimStart(_)
TrimStart(s) ==
  IF s # <<>> /\ IsSpace(Head(s)) THEN TrimStart(Tail(s)) ELSE s

RECURSIVE TrimEnd(_)
TrimEnd(s) ==
  IF s # <<>> /\ IsSpace(s[Len(s)])
    THEN TrimEnd(SubSeq(s, 1, Len(s) - 1))
    ELSE s

Trim(s) == TrimEnd(TrimStart(s))

DigitChar == <<"0", "1", "2", "3", "4", "5", "6", "7", "8", "9">>

\* Template-literal conversion of a non-negative integer to its digits.
RECURSIVE Digits(_)
Digits(n) ==
  IF n < 10
    THEN <<DigitChar[n + 1]>>
    ELSE Digits(n \div 10) \o <<DigitChar[(n % 10) + 1]>>

(***************************************************************************)
(* JavaScript values.  A string value is a sequence of tokens (the text of *)
(* the completion is kept at token level); a number is in hundredths.      *)
(***************************************************************************)
Tok(t, n, s) == [t |-> t, n |-> n, s |-> s]
Punct(p) == Tok(p, 0, "")
NumTok(n) == Tok("num", n, "")
StrTok(s) == Tok("str", 0, s)
LitTok(s) == Tok("lit", 0, s)
WordTok(s) == Tok("word", 0, s)

JUndef == [k |-> "undefined", n |-> 0, s |-> <<>>]
JNull == [k |-> "null", n |-> 0, s |-> <<>>]
JBool(b) == [k |-> "boolean", n |-> IF b THEN 1 ELSE 0, s |-> <<>>]
JNum(n) == [k |-> "number", n |-> n, s |-> <<>>]
JStr(t) == [k |-> "string", n |-> 0, s |-> t]
JObject == [k |-> "object", n |-> 0, s |-> <<>>]
JArray == [k |-> "array", n |-> 0, s |-> <<>>]

\* ToBoolean, as the || operator applies it.
Truthy(v) ==
  CASE v.k \in {"undefined", "null"} -> FALSE
    [] v.k = "boolean" -> v.n = 1
    [] v.k = "number" -> v.n # 0
    [] v.k = "string" -> v.s # <<>>
    [] OTHER -> TRUE

OrElse(v, d) == IF Truthy(v) THEN v ELSE d

(***************************************************************************)
(* JSON.parse on token sequences: a scalar literal, an empty array, or a   *)
(* flat object  { "key" : scalar , ... } ; anything else is a SyntaxError.  *)
(***************************************************************************)
IsValueTok(x) ==
  \/ x.t \in {"num", "str"}
  \/ x.t = "lit" /\ x.s \in {"null", "true", "false"}

ValueOf(x) ==
  CASE x.t = "num" -> JNum(x.n)
    [] x.t = "str" -> JStr(IF x.s = "" THEN <<>> ELSE <<WordTok(x.s)>>)
    [] x.t = "lit" /\ x.s = "null" -> JNull
    [] x.t = "lit" /\ x.s = "true" -> JBool(TRUE)
    [] OTHER -> JBool(FALSE)

IsObjectText(c) ==
  /\ Len(c) >= 2
  /\ c[1] = Punct("{")
  /\ c[Len(c)] = Punct("}")
  /\ \/ Len(c) = 2
     \/ /\ (Len(c) - 2) % 4 = 3
        /\ \A i \in 2..(Len(c) - 1) :
             CASE (i - 2) % 4 = 0 -> c[i].t = "str"
               [] (i - 2) % 4 = 1 -> c[i] = Punct(":")
               [] (i - 2) % 4 = 2 -> IsValueTok(c[i])
               [] OTHER -> c[i] = Punct(",")

MaxOf(S) == CHOOSE m \in S : \A x \in S : x <= m

\* The value of the last member named `name`, undefined when there is none.
Member(c, name) ==
  LET at == {i \in 2..(Len(c) - 1) : (i - 2) % 4 = 0 /\ c[i].s = name}
  IN  IF at = {} THEN JUndef ELSE ValueOf(c[MaxOf(at) + 2])

NoMembers ==
  [answer |-> JUndef, explanation |-> JUndef, confidence |-> JUndef]

JSONParse(c) ==
  IF Len(c) = 1 /\ IsValueTok(c[1])
    THEN [ok |-> TRUE, v |-> ValueOf(c[1]), f |-> NoMembers]
  ELSE IF IsObjectText(c)
    THEN [ok |-> TRUE, v |-> JObject,
          f |-> [answer |-> Member(c, "answer"),
                 explanation |-> Member(c, "explanation"),
                 confidence |-> Member(c, "confidence")]]
  ELSE IF c = <<Punct("["), Punct("]")>>
    THEN [ok |-> TRUE, v |-> JArray, f |-> NoMembers]
  ELSE [ok |-> FALSE, v |-> JUndef, f |-> NoMembers]

\* parsed.name : a TypeError on null, undefined on any other non-object.
CanReadProp(p) == p.v.k \notin {"null", "undefined"}
Prop(p, name) == IF p.v.k = "object" THEN p.f[name] ELSE JUndef

(***************************************************************************)
(* OpenAIService.analyzeText: the handling of the HTTP response.           *)
(***************************************************************************)
DefaultConfidence == 50
FallbackConfidence == 80
DefaultAnswer == <<WordTok("No answer provided")>>
DefaultExplanation == <<WordTok("No explanation provided")>>
\* 'GPT-4' followed by U+306B U+3088 U+308B U+56DE U+7B54
FillerExplanation == <<WordTok("GPT-4 U+306B U+3088 U+308B U+56DE U+7B54")>>

\* An HTTP exchange as fetch presents it: `net` FALSE when fetch rejects,
\* `json` whether the body parses, `hasError`/`code`/`message` the body's
\* error member, `hasChoice`/`content` choices[0].message.content.
Resp(net, status, json, hasError, code, message, hasChoice, content) ==
  [net |-> net, status |-> status, json |-> json, hasError |-> hasError,
   code |-> code, message |-> message, hasChoice |-> hasChoice,
   content |-> content]

Err(name, message) == [name |-> name, message |-> message]
NoError == Err("", <<>>)
NoResult == [answer |-> JUndef, explanation |-> JUndef, confidence |-> JUndef]
Returned(r) == [ok |-> TRUE, result |-> r, error |-> NoError]
Thrown(e) == [ok |-> FALSE, result |-> NoResult, error |-> e]

\* response.ok
ResponseOk(status) == status >= 200 /\ status <= 299

\* The branch on a non-success status, after errorData was read.
StatusError(r) ==
  IF r.status = 401 THEN Err("Error", MsgInvalidKey)
  ELSE IF r.status = 429
    THEN IF r.hasError /\ r.code = "insufficient_quota"
           THEN Err("Error", MsgQuota)
           ELSE Err("Error", MsgRateLimit)
  ELSE IF r.status = 403 THEN Err("Error", MsgForbidden)
  ELSE Err("Error",
           MsgApiErrorPrefix \o Digits(r.status) \o MsgApiErrorSep
             \o (IF r.hasError /\ r.message # <<>>
                   THEN r.message ELSE MsgUnknownError))

\* The inner try/catch around JSON.parse(content).
ParseContent(content) ==
  LET parsed == JSONParse(content)
  IN  IF parsed.ok /\ CanReadProp(parsed)
        THEN [answer |-> OrElse(Prop(parsed, "answer"), JStr(DefaultAnswer)),
              explanation |->
                OrElse(Prop(parsed, "explanation"), JStr(DefaultExplanation)),
              confidence |->
                OrElse(Prop(parsed, "confidence"), JNum(DefaultConfidence))]
        ELSE [answer |-> JStr(content),
              explanation |-> JStr(FillerExplanation),
              confidence |-> JNum(FallbackConfidence)]

\* An analyzeText that returns whatever the exchange was.
AlwaysReturns(r) == Returned(ParseContent(r.content))

\* What analyzeText returns or throws once fetch has settled with `r`.
AnalyzeResponse(r) ==
  IF ~r.net THEN Thrown(Err("TypeError", MsgNetworkFailed))
  ELSE IF ~r.json THEN Thrown(Err("SyntaxError", MsgJsonParse))
  ELSE IF ~ResponseOk(r.status) THEN Thrown(StatusError(r))
  ELSE IF ~r.hasChoice THEN Thrown(Err("TypeError", MsgCannotRead))
  ELSE Returned(ParseContent(r.content))

\* A guard that lets every credential through.
KeyNeverMissing(key) == FALSE

\* The guard in front of fetch.
KeyMissing(key) == key = <<>>
NotConfigured == Thrown(Err("Error", MsgNotConfigured))

(***************************************************************************)
(* Inputs: credentials typed by the user, HTTP exchanges.                  *)
(***************************************************************************)
\* Most blanks typed before or after a credential.
MaxPad == 1

KeyPrefix == <<"s", "k", "-">>

RECURSIVE Spaces(_)
Spaces(n) == IF n = 0 THEN <<>> ELSE <<" ">> \o Spaces(n - 1)

KeyBodies ==
  {<<>>, KeyPrefix \o <<"a">>, KeyPrefix \o <<"b">>, <<"k", "s", "-", "a">>}

KeyInputs ==
  {Spaces(l) \o b \o Spaces(r) : l \in 0..MaxPad, r \in 0..MaxPad,
                                b \in KeyBodies}

Statuses == {200, 201, 400, 401, 403, 404, 429, 500}
ErrorCodes == {"", "insufficient_quota", "rate_limit_exceeded"}
ErrorMessages == {<<>>, <<"b", "a", "d">>}

ErrorBody(net, status, json, hasError, code, message) ==
  Resp(net, status, json, hasError, code, message, FALSE, <<>>)

OkBody(status, json, hasChoice, content) ==
  Resp(TRUE, status, json, FALSE, "", <<>>, hasChoice, content)

\* { "answer": a, "explanation": e, "confidence": c } with any member left out.
Pair(key, tok) == <<StrTok(key), Punct(":"), tok>>

RECURSIVE JoinMembers(_)
JoinMembers(ms) ==
  IF ms = <<>> THEN <<>>
  ELSE IF Len(ms) = 1 THEN ms[1]
  ELSE ms[1] \o <<Punct(",")>> \o JoinMembers(Tail(ms))

ObjectText(ms) == <<Punct("{")>> \o JoinMembers(ms) \o <<Punct("}")>>

AnswerMembers == {<<>>, <<Pair("answer", StrTok("4"))>>,
                  <<Pair("answer", StrTok(""))>>}
ExplanationMembers == {<<>>, <<Pair("explanation", StrTok("2+2"))>>}
ConfidenceMembers ==
  {<<>>, <<Pair("confidence", NumTok(95))>>, <<Pair("confidence", NumTok(0))>>,
   <<Pair("confidence", NumTok(100))>>, <<Pair("confidence", NumTok(9500))>>,
   <<Pair("confidence", NumTok(-10))>>, <<Pair("confidence", StrTok("high"))>>}

ObjectContents ==
  {ObjectText(a \o e \o c) : a \in AnswerMembers, e \in ExplanationMembers,
                             c \in ConfidenceMembers}

\* The content 42, as the completion wrote it.
Content42 == <<NumTok(4200)>>

ScalarContents ==
  {Content42, <<StrTok("42")>>, <<LitTok("null")>>, <<LitTok("true")>>,
   <<Punct("["), Punct("]")>>}

ProseContents ==
  {<<>>, <<WordTok("The"), WordTok("answer"), WordTok("is"), NumTok(4200)>>,
   <<WordTok("Sure:")>> \o ObjectText(<<Pair("answer", StrTok("4"))>>),
   <<Punct("{"), StrTok("answer"), Punct(":"), StrTok("4")>>}

Contents == ObjectContents \cup ScalarContents \cup ProseContents

ErrorResponses ==
  {ErrorBody(TRUE, st, FALSE, FALSE, "", <<>>) : st \in Statuses \ {200, 201}}
  \cup {ErrorBody(TRUE, st, TRUE, FALSE, "", <<>>) : st \in Statuses \ {200, 201}}
  \cup {ErrorBody(TRUE, st, TRUE, TRUE, c, m) :
          st \in Statuses \ {200, 201}, c \in ErrorCodes, m \in ErrorMessages}

OkResponses ==
  {OkBody(st, FALSE, FALSE, <<>>) : st \in {200, 201}}
  \cup {OkBody(st, TRUE, FALSE, <<>>) : st \in {200, 201}}
  \cup {OkBody(200, TRUE, TRUE, c) : c \in Contents}

NetworkFailure == ErrorBody(FALSE, 0, FALSE, FALSE, "", <<>>)

Responses == ErrorResponses \cup OkResponses \cup {NetworkFailure}

(***************************************************************************)
(* More bounds.                                                            *)
(***************************************************************************)
\* Results forwarded to handleResult in one session.
MaxResults == 2
\* handleResult invocations that may be in flight together.
MaxHandlers == 2
\* Periodic attempts / manual captures the model can hold in flight together.
MaxPeriodic == 2
MaxManual == 1
\* Storage operations that are rejected.
MaxFailures == 1
\* Rows deleted on the history screen in one session.
MaxDeletes == 1
\* Interval timers created in one session.
MaxTimers == 2
\* Calls of the OCR service under way at once, calls made in one session,
\* and workers the engine creates in one session.
MaxCalls == 2
MaxOcrCalls == 4
MaxWorkers == 2

\* The history cap of handleResult.
HistoryCap == 20
\* Date.now() when the session starts, in the model's clock ticks.
Epoch == HistoryCap

VARIABLES
  \* AsyncStorage: each key is absent (has = FALSE) or holds a value; `pending`
  \* is the queue of issued operations whose promise has not settled yet.
  stApiKey, stHistory, stAuto, stSave, pending, stFailures,
  \* Delete-all-data removed the history and no result was appended since
  \* (history variable).
  wiped,
  \* OpenAIService.apiKey and the requests fetch has sent.
  svcKey, httpLog,
  \* Direct invocations of analyzeText.
  an,
  \* SettingsScreen.
  seMounted, seApiKey, seAuto, seSave, seLoading, seSaveKey, seLoadSnap,
  \* The text given to the last save that was persisted (history variable).
  givenKey,
  \* The Alert.alert dialog on screen.
  alert,
  \* CameraScreen.
  csMounted, csApiKey, csResult, csLoadSnap, handlers, clock,
  \* CameraViewComponent.
  cvMounted, realtimeEnabled, rtEffect, isProcessing, lastProcessTime,
  processingRef, intervalRef, timers, nextTimer, periodic, manual,
  \* Periodic capture was switched off by a forwarded result and the toggle
  \* was not pressed since (history variable).
  autoStopped,
  \* HistoryScreen.
  hsMounted, hsHistory, hsLoadSnap, hsDeletes,
  \* OCRService: its fields, the workers alive in the engine, the number of
  \* workers created so far, the calls under way and the calls made.
  worker, isInitialized, isInitializing, liveWorkers, nextWorker, calls,
  ocrCalls

storageVars ==
  <<stApiKey, stHistory, stAuto, stSave, pending, stFailures, wiped>>
serviceVars == <<svcKey, httpLog>>
clientVars == <<an>>
settingsVars ==
  <<seMounted, seApiKey, seAuto, seSave, seLoading, seSaveKey, seLoadSnap,
    givenKey>>
cameraScreenVars == <<csMounted, csApiKey, csResult, csLoadSnap, handlers, clock>>
cameraViewVars ==
  <<cvMounted, realtimeEnabled, rtEffect, autoStopped, isProcessing,
    lastProcessTime,
    processingRef, intervalRef, timers, nextTimer, periodic, manual>>
historyScreenVars == <<hsMounted, hsHistory, hsLoadSnap, hsDeletes>>

ocrVars ==
  <<worker, isInitialized, isInitializing, liveWorkers, nextWorker, calls,
    ocrCalls>>

vars ==
  <<storageVars, serviceVars, clientVars, settingsVars, alert,
    cameraScreenVars, cameraViewVars, historyScreenVars, ocrVars>>

(***************************************************************************)
(* AsyncStorage.  An operation takes effect when it is issued (the store   *)
(* serialises operations in issue order) and its promise settles later, in *)
(* issue order: the continuation of the head of `pending` runs first.      *)
(***************************************************************************)
Absent == [has |-> FALSE, v |-> <<>>]
Stored(x) == [has |-> TRUE, v |-> x]

\* An operation may be rejected; the model bounds the rejections.
Outcomes == IF stFailures < MaxFailures THEN BOOLEAN ELSE {TRUE}
Counted(ok) == stFailures' = IF ok THEN stFailures ELSE stFailures + 1

Op(who, slot, ok) == [who |-> who, slot |-> slot, ok |-> ok]
Issue(who, slot, ok) ==
  /\ pending' = Append(pending, Op(who, slot, ok))
  /\ Counted(ok)
Settles(who) == pending # <<>> /\ Head(pending).who = who
Settle == pending' = Tail(pending)

\* JSON.stringify of a boolean preference, and JSON.parse of the stored text.
BoolText(b) == IF b THEN <<"t", "r", "u", "e">> ELSE <<"f", "a", "l", "s", "e">>
TextBool(t) == t = <<"t", "r", "u", "e">>

\* Alert.alert: the dialog on screen, if any.  While it is up the user can do
\* nothing but dismiss it.
NoAlert == [title |-> "", msg |-> <<>>]
\* An Alert.alert that shows nothing.
ShowNothing(title, msg) == alert' = alert
Show(title, msg) == alert' = [title |-> title, msg |-> msg]
Interactive == alert = NoAlert

NotPending(who) == \A i \in 1..Len(pending) : pending[i].who # who

(***************************************************************************)
(* Initial state: a fresh install, nothing mounted.                        *)
(***************************************************************************)
AnIdle == [pc |-> "idle", resp |-> NetworkFailure, out |-> Thrown(NoError)]
NoSettingsSnap ==
  [key |-> Absent, auto |-> Absent, save |-> Absent, given |-> Absent]
NoOcr == [text |-> <<>>, confidence |-> 0]
IdleHandler ==
  [pc |-> "idle", ocr |-> NoOcr, ai |-> NoResult, snap |-> Absent]
\* A run of processCurrentFrame or takePictureAndAnalyze: where it stands, the
\* timer whose tick started it, what was recognized.
IdleRun == [pc |-> "idle", timer |-> 0, ocr |-> NoOcr]

\* A call of the OCR service: the method, where it stands, and the worker its
\* pending engine call was made on.
IdleCall == [op |-> "none", pc |-> "idle", w |-> 0]

StorageEmpty ==
  /\ stApiKey = Absent
  /\ stHistory = Absent
  /\ stAuto = Absent
  /\ stSave = Absent

MemoryFresh ==
  /\ pending = <<>>
  /\ wiped = FALSE
  /\ svcKey = <<>>
  /\ an = AnIdle
  /\ seMounted = FALSE
  /\ seApiKey = <<>>
  /\ seAuto = FALSE
  /\ seSave = TRUE
  /\ seLoading = FALSE
  /\ seSaveKey = <<>>
  /\ seLoadSnap = NoSettingsSnap
  /\ alert = NoAlert
  /\ csMounted = FALSE
  /\ csApiKey = <<>>
  /\ csResult = FALSE
  /\ csLoadSnap = Absent
  /\ handlers = [h \in 1..MaxHandlers |-> IdleHandler]
  /\ cvMounted = FALSE
  /\ realtimeEnabled = FALSE
  /\ rtEffect = FALSE
  /\ autoStopped = FALSE
  /\ isProcessing = FALSE
  /\ lastProcessTime = 0
  /\ processingRef = FALSE
  /\ intervalRef = 0
  /\ timers = {}
  /\ periodic = [p \in 1..MaxPeriodic |-> IdleRun]
  /\ manual = [m \in 1..MaxManual |-> IdleRun]
  /\ hsMounted = FALSE
  /\ hsHistory = <<>>
  /\ hsLoadSnap = Absent
  /\ hsDeletes = 0
  /\ worker = 0
  /\ isInitialized = FALSE
  /\ isInitializing = FALSE
  /\ liveWorkers = {}
  /\ nextWorker = 1
  /\ calls = [c \in 1..MaxCalls |-> IdleCall]
  /\ ocrCalls = 0

Init ==
  /\ StorageEmpty
  /\ stFailures = 0
  /\ MemoryFresh
  /\ httpLog = {}
  /\ givenKey = Absent
  /\ clock = Epoch
  /\ nextTimer = 1

(***************************************************************************)
(* OpenAIService (src/unnamed/part_001).                                   *)
(***************************************************************************)
ServiceSetApiKey(k) == svcKey' = k
\* A clearApiKey that leaves the credential in place.
ServiceKeepsApiKey == svcKey' = svcKey

ServiceClearApiKey == svcKey' = <<>>
HasApiKey == Len(svcKey) > 0

\* fetch(...) with the Authorization header built from this.apiKey.
SendRequest == httpLog' = httpLog \cup {[auth |-> svcKey]}

\* Direct calls of the service's methods.
ClientKeys == {KeyPrefix \o <<"a">>, KeyPrefix \o <<"b">>}

ClientSetApiKey(k) ==
  /\ ServiceSetApiKey(k)
  /\ UNCHANGED <<storageVars, httpLog, clientVars, settingsVars, alert,
                 cameraScreenVars, cameraViewVars, historyScreenVars>>
  /\ UNCHANGED ocrVars

ClientClearApiKey ==
  /\ ServiceClearApiKey
  /\ UNCHANGED <<storageVars, httpLog, clientVars, settingsVars, alert,
                 cameraScreenVars, cameraViewVars, historyScreenVars>>
  /\ UNCHANGED ocrVars

\* analyzeText up to its first await: the guard, then fetch.
AnalyzeCall ==
  /\ an.pc = "idle"
  /\ IF KeyMissing(svcKey)
       THEN /\ an' = [pc |-> "done", resp |-> NetworkFailure,
                      out |-> NotConfigured]
            /\ UNCHANGED httpLog
       ELSE /\ an' = [an EXCEPT !.pc = "fetch"]
            /\ SendRequest
  /\ UNCHANGED <<storageVars, svcKey, settingsVars, alert, cameraScreenVars,
                 cameraViewVars, historyScreenVars>>
  /\ UNCHANGED ocrVars

\* fetch settles with the exchange r; analyzeText returns or throws.
AnalyzeSettle(r) ==
  /\ an.pc = "fetch"
  /\ an' = [pc |-> "done", resp |-> r, out |-> AnalyzeResponse(r)]
  /\ UNCHANGED <<storageVars, serviceVars, settingsVars, alert,
                 cameraScreenVars, cameraViewVars, historyScreenVars>>
  /\ UNCHANGED ocrVars

\* The caller takes the outcome.
AnalyzeReturn ==
  /\ an.pc = "done"
  /\ an' = AnIdle
  /\ UNCHANGED <<storageVars, serviceVars, settingsVars, alert,
                 cameraScreenVars, cameraViewVars, historyScreenVars>>
  /\ UNCHANGED ocrVars

NextClient ==
  \/ \E k \in ClientKeys : ClientSetApiKey(k)
  \/ ClientClearApiKey
  \/ AnalyzeCall
  \/ \E r \in Responses : AnalyzeSettle(r)
  \/ AnalyzeReturn

SpecClient == Init /\ [][NextClient]_vars

\* The user dismisses the dialog.
DismissAlert ==
  /\ alert # NoAlert
  /\ alert' = NoAlert
  /\ UNCHANGED <<storageVars, serviceVars, clientVars, settingsVars,
                 cameraScreenVars, cameraViewVars, historyScreenVars>>
  /\ UNCHANGED ocrVars

(***************************************************************************)
(* SettingsScreen (src/app/(tabs)/settings.tsx): the credential store and  *)
(* the two preferences.                                                    *)
(***************************************************************************)
AlertEnterKey == <<"enter the API key">>
AlertBadPrefix == <<"enter a valid OpenAI API key (starts with sk-)">>
AlertSaved == <<"the API key was saved">>
AlertSaveFailed == <<"saving the API key failed">>
AlertDeleted == <<"the API key was deleted">>
AlertDeleteFailed == <<"deleting the API key failed">>
AlertCleared == <<"all data was deleted">>
AlertClearFailed == <<"deleting the data failed">>

\* The two validations of saveApiKey and the text it persists.
RejectsBlank(key) == Trim(key) = <<>>
\* A prefix test applied to the trimmed input.
RejectsPrefixTrimmed(key) == ~StartsWith(Trim(key), KeyPrefix)
RejectsPrefix(key) == ~StartsWith(key, KeyPrefix)
\* The input persisted as it was typed.
KeptAsTyped(key) == key
PersistedKey(key) == Trim(key)

\* useEffect on mount: loadSettings issues the three reads.
SettingsMount ==
  /\ Interactive
  /\ csMounted
  /\ ~seMounted
  /\ seMounted' = TRUE
  /\ seLoadSnap' = [key |-> stApiKey, auto |-> stAuto, save |-> stSave,
                    given |-> givenKey]
  /\ \E ok \in Outcomes : Issue("seLoad", 0, ok)
  /\ UNCHANGED <<wiped, stApiKey, stHistory, stAuto, stSave, serviceVars, clientVars,
                 seApiKey, seAuto, seSave, seLoading, seSaveKey, givenKey,
                 alert, cameraScreenVars, cameraViewVars, historyScreenVars>>
  /\ UNCHANGED ocrVars

\* loadSettings after the reads settled.
SettingsLoaded ==
  /\ Settles("seLoad")
  /\ Settle
  /\ IF Head(pending).ok
       THEN /\ IF seLoadSnap.key.has /\ seLoadSnap.key.v # <<>>
                 THEN /\ seApiKey' = seLoadSnap.key.v
                      /\ ServiceSetApiKey(seLoadSnap.key.v)
                 ELSE UNCHANGED <<seApiKey, svcKey>>
            /\ seAuto' = IF seLoadSnap.auto.has /\ seLoadSnap.auto.v # <<>>
                           THEN TextBool(seLoadSnap.auto.v) ELSE seAuto
            /\ seSave' = IF seLoadSnap.save.has
                           THEN TextBool(seLoadSnap.save.v) ELSE seSave
       ELSE UNCHANGED <<seApiKey, svcKey, seAuto, seSave>>
  /\ seLoadSnap' = NoSettingsSnap
  /\ UNCHANGED <<wiped, stApiKey, stHistory, stAuto, stSave, stFailures, httpLog,
                 clientVars,
                 seMounted, seLoading, seSaveKey, givenKey, alert,
                 cameraScreenVars, cameraViewVars, historyScreenVars>>
  /\ UNCHANGED ocrVars

\* onChangeText of the credential input.
TypeApiKey(t) ==
  /\ Interactive
  /\ seMounted
  /\ t # seApiKey
  /\ seApiKey' = t
  /\ UNCHANGED <<storageVars, serviceVars, clientVars, seMounted, seAuto,
                 seSave, seLoading, seSaveKey, seLoadSnap, givenKey, alert,
                 cameraScreenVars, cameraViewVars, historyScreenVars>>
  /\ UNCHANGED ocrVars

\* saveApiKey up to its await.
SaveApiKey ==
  /\ Interactive
  /\ seMounted
  /\ ~seLoading
  /\ IF RejectsBlank(seApiKey)
       THEN /\ Show("Error", AlertEnterKey)
            /\ UNCHANGED <<storageVars, seLoading, seSaveKey, givenKey>>
     ELSE IF RejectsPrefix(seApiKey)
       THEN /\ Show("Error", AlertBadPrefix)
            /\ UNCHANGED <<storageVars, seLoading, seSaveKey, givenKey>>
     ELSE /\ seLoading' = TRUE
          /\ seSaveKey' = seApiKey
          /\ \E ok \in Outcomes :
               /\ Issue("seSave", 0, ok)
               /\ IF ok
                    THEN /\ stApiKey' = Stored(PersistedKey(seApiKey))
                         /\ givenKey' = Stored(seApiKey)
                    ELSE UNCHANGED <<stApiKey, givenKey>>
          /\ UNCHANGED <<stHistory, stAuto, stSave, alert, wiped>>
  /\ UNCHANGED <<serviceVars, clientVars, seMounted, seApiKey, seAuto, seSave,
                 seLoadSnap, cameraScreenVars, cameraViewVars,
                 historyScreenVars>>
  /\ UNCHANGED ocrVars

\* saveApiKey after setItem settled: the try, the catch, the finally.
SaveApiKeySettled ==
  /\ Settles("seSave")
  /\ Settle
  /\ IF Head(pending).ok
       THEN /\ ServiceSetApiKey(PersistedKey(seSaveKey))
            /\ Show("Success", AlertSaved)
       ELSE /\ Show("Error", AlertSaveFailed)
            /\ UNCHANGED svcKey
  /\ seLoading' = FALSE
  /\ seSaveKey' = <<>>
  /\ UNCHANGED <<wiped, stApiKey, stHistory, stAuto, stSave, stFailures, httpLog,
                 clientVars,
                 seMounted, seApiKey, seAuto, seSave, seLoadSnap, givenKey,
                 cameraScreenVars, cameraViewVars, historyScreenVars>>
  /\ UNCHANGED ocrVars

\* deleteApiKey: the confirmation pressed, up to the await.
DeleteApiKey ==
  /\ Interactive
  /\ seMounted
  /\ seApiKey # <<>>
  /\ NotPending("seDelete")
  /\ \E ok \in Outcomes :
       /\ Issue("seDelete", 0, ok)
       /\ IF ok
            THEN /\ stApiKey' = Absent
                 /\ givenKey' = Absent
            ELSE UNCHANGED <<stApiKey, givenKey>>
  /\ UNCHANGED <<wiped, stHistory, stAuto, stSave, serviceVars, clientVars, seMounted,
                 seApiKey, seAuto, seSave, seLoading, seSaveKey, seLoadSnap,
                 alert, cameraScreenVars, cameraViewVars, historyScreenVars>>
  /\ UNCHANGED ocrVars

DeleteApiKeySettled ==
  /\ Settles("seDelete")
  /\ Settle
  /\ IF Head(pending).ok
       THEN /\ ServiceClearApiKey
            /\ seApiKey' = <<>>
            /\ Show("Success", AlertDeleted)
       ELSE /\ Show("Error", AlertDeleteFailed)
            /\ UNCHANGED <<svcKey, seApiKey>>
  /\ UNCHANGED <<wiped, stApiKey, stHistory, stAuto, stSave, stFailures, httpLog,
                 clientVars,
                 seMounted, seAuto, seSave, seLoading, seSaveKey, seLoadSnap,
                 givenKey, cameraScreenVars, cameraViewVars,
                 historyScreenVars>>
  /\ UNCHANGED ocrVars

\* clearAllData: the confirmation pressed, up to the await of multiRemove.
ClearAllData ==
  /\ Interactive
  /\ seMounted
  /\ NotPending("seClear")
  /\ \E ok \in Outcomes :
       /\ Issue("seClear", 0, ok)
       /\ IF ok
            THEN /\ stApiKey' = Absent
                 /\ stAuto' = Absent
                 /\ stSave' = Absent
                 /\ stHistory' = Absent
                 /\ givenKey' = Absent
                 /\ wiped' = TRUE
            ELSE UNCHANGED <<stApiKey, stAuto, stSave, stHistory, givenKey,
                             wiped>>
  /\ UNCHANGED <<serviceVars, clientVars, seMounted, seApiKey, seAuto, seSave,
                 seLoading, seSaveKey, seLoadSnap, alert, cameraScreenVars,
                 cameraViewVars, historyScreenVars>>
  /\ UNCHANGED ocrVars

ClearAllDataSettled ==
  /\ Settles("seClear")
  /\ Settle
  /\ IF Head(pending).ok
       THEN /\ ServiceClearApiKey
            /\ seApiKey' = <<>>
            /\ seAuto' = FALSE
            /\ seSave' = TRUE
            /\ Show("Success", AlertCleared)
       ELSE /\ Show("Error", AlertClearFailed)
            /\ UNCHANGED <<svcKey, seApiKey, seAuto, seSave>>
  /\ UNCHANGED <<wiped, stApiKey, stHistory, stAuto, stSave, stFailures, httpLog,
                 clientVars,
                 seMounted, seLoading, seSaveKey, seLoadSnap, givenKey,
                 cameraScreenVars, cameraViewVars, historyScreenVars>>
  /\ UNCHANGED ocrVars

\* toggleAutoCapture / toggleSaveHistory: the state, then the write, whose
\* failure is only logged.
ToggleAutoCapture(value) ==
  /\ Interactive
  /\ seMounted
  /\ value # seAuto
  /\ seAuto' = value
  /\ \E ok \in Outcomes :
       /\ stAuto' = IF ok THEN Stored(BoolText(value)) ELSE stAuto
       /\ Counted(ok)
  /\ UNCHANGED <<wiped, stApiKey, stHistory, stSave, pending, serviceVars, clientVars,
                 seMounted, seApiKey, seSave, seLoading, seSaveKey, seLoadSnap,
                 givenKey, alert, cameraScreenVars, cameraViewVars,
                 historyScreenVars>>
  /\ UNCHANGED ocrVars

ToggleSaveHistory(value) ==
  /\ Interactive
  /\ seMounted
  /\ value # seSave
  /\ seSave' = value
  /\ \E ok \in Outcomes :
       /\ stSave' = IF ok THEN Stored(BoolText(value)) ELSE stSave
       /\ Counted(ok)
  /\ UNCHANGED <<wiped, stApiKey, stHistory, stAuto, pending, serviceVars, clientVars,
                 seMounted, seApiKey, seAuto, seLoading, seSaveKey, seLoadSnap,
                 givenKey, alert, cameraScreenVars, cameraViewVars,
                 historyScreenVars>>
  /\ UNCHANGED ocrVars

(***************************************************************************)
(* CameraScreen (src/app/(tabs)/history.tsx, lines 336-477): the stored    *)
(* credential is loaded on mount; handleResult appends to the history.     *)
(***************************************************************************)
\* The store holds the history as JSON.parse reads it back.  JSON.stringify
\* writes each timestamp as an ISO string; handleResult reads them back as
\* strings, loadHistory converts them to Date values.
Stringify(list) == [i \in 1..Len(list) |-> [list[i] EXCEPT !.ts = "iso"]]
ReviveDates(list) == [i \in 1..Len(list) |-> [list[i] EXCEPT !.ts = "date"]]

Entry(id, ocr, ai) == [id |-> id, ocr |-> ocr, ai |-> ai, ts |-> "date"]

\* An unshift that would honour the save-history preference.
UnshiftUnlessOff(list, item) ==
  IF stSave = Stored(BoolText(FALSE)) THEN list ELSE <<item>> \o list
\* history.unshift(newItem)
Unshift(list, item) == <<item>> \o list
\* A slice that keeps every entry.
SliceAll(list) == list
\* history.slice(0, 20)
TrimHistory(list) ==
  IF Len(list) > HistoryCap THEN SubSeq(list, 1, HistoryCap) ELSE list

InFlightHandlers == {h \in 1..MaxHandlers : handlers[h].pc # "idle"}
\* The session forwards at most MaxResults results.
MayForward ==
  /\ clock + Cardinality(InFlightHandlers) < Epoch + MaxResults
  /\ \E h \in 1..MaxHandlers : handlers[h].pc = "idle"

\* The invocation record a new call of handleResult takes.
FreeHandler ==
  CHOOSE h \in 1..MaxHandlers :
    /\ handlers[h].pc = "idle"
    /\ \A g \in 1..MaxHandlers : handlers[g].pc = "idle" => h <= g

\* The render of CameraScreen: hasValidApiKey decides whether the camera view
\* is part of the tree.
HasValidApiKey(key, serviceKey) == key # <<>> /\ Len(serviceKey) > 0

\* useEffect on mount: loadApiKey issues the read.
CameraMount ==
  /\ ~csMounted
  /\ csMounted' = TRUE
  /\ csLoadSnap' = stApiKey
  /\ \E ok \in Outcomes : Issue("csLoad", 0, ok)
  /\ UNCHANGED <<wiped, stApiKey, stHistory, stAuto, stSave, serviceVars, clientVars,
                 settingsVars, alert, csApiKey, csResult, handlers, clock,
                 cameraViewVars, historyScreenVars>>
  /\ UNCHANGED ocrVars

\* loadApiKey after the read settled, and the render that follows: the camera
\* view mounts (its effect hands the same credential to the service).
CameraKeyLoaded ==
  /\ Settles("csLoad")
  /\ Settle
  /\ IF Head(pending).ok /\ csLoadSnap.has /\ csLoadSnap.v # <<>>
       THEN /\ csApiKey' = csLoadSnap.v
            /\ ServiceSetApiKey(csLoadSnap.v)
       ELSE /\ csApiKey' = <<>>
            /\ ServiceClearApiKey
  /\ cvMounted' = HasValidApiKey(csApiKey', svcKey')
  /\ csLoadSnap' = Absent
  /\ UNCHANGED <<wiped, stApiKey, stHistory, stAuto, stSave, stFailures, httpLog,
                 clientVars,
                 settingsVars, alert, csMounted, csResult, handlers, clock,
                 realtimeEnabled, rtEffect, autoStopped, isProcessing,
                 lastProcessTime, processingRef, intervalRef, timers,
                 nextTimer, periodic, manual, historyScreenVars>>
  /\ UNCHANGED ocrVars

\* handleResult up to its first await: the result is shown, the read issued.
HandleResultStart(h, ocr, ai) ==
  /\ handlers[h].pc = "idle"
  /\ csResult' = TRUE
  /\ \E ok \in Outcomes :
       /\ Issue("hrRead", h, ok)
       /\ handlers' = [handlers EXCEPT ![h] =
            [pc |-> "read", ocr |-> ocr, ai |-> ai, snap |-> stHistory]]

\* handleResult after getItem settled: unshift, slice, setItem.  A failure of
\* either operation is caught and logged.
HandleResultRead(h) ==
  /\ Settles("hrRead")
  /\ Head(pending).slot = h
  /\ Settle
  /\ IF Head(pending).ok
       THEN LET history == IF handlers[h].snap.has
                             THEN handlers[h].snap.v ELSE <<>>
                newItem == Entry(clock + 1, handlers[h].ocr, handlers[h].ai)
                trimmedHistory == TrimHistory(Unshift(history, newItem))
            IN  /\ clock' = clock + 1
                /\ \E ok \in Outcomes :
                     /\ stHistory' = IF ok THEN Stored(Stringify(trimmedHistory))
                                          ELSE stHistory
                     /\ wiped' = (wiped /\ ~ok)
                     /\ Counted(ok)
                     /\ handlers' = [handlers EXCEPT ![h] = IdleHandler]
       ELSE /\ handlers' = [handlers EXCEPT ![h] = IdleHandler]
            /\ UNCHANGED <<stHistory, clock, stFailures, wiped>>
  /\ UNCHANGED <<stApiKey, stAuto, stSave, serviceVars, clientVars,
                 settingsVars, alert, csMounted, csApiKey, csResult,
                 csLoadSnap, cameraViewVars, historyScreenVars>>
  /\ UNCHANGED ocrVars

(***************************************************************************)
(* HistoryScreen (src/app/(tabs)/history.tsx, lines 1-335).                *)
(***************************************************************************)
\* history.filter(item => item.id !== itemId)
RECURSIVE WithoutId(_, _)
WithoutId(list, id) ==
  IF list = <<>> THEN <<>>
  ELSE IF Head(list).id = id THEN WithoutId(Tail(list), id)
  ELSE <<Head(list)>> \o WithoutId(Tail(list), id)

\* The rows the model's user may pick for deletion: the newest and the oldest.
Deletable(list) == {list[i].id : i \in {1, Len(list)} \cap DOMAIN list}

IssueLoadHistory ==
  /\ hsLoadSnap' = stHistory
  /\ \E ok \in Outcomes : Issue("hsLoad", 0, ok)

\* useEffect on mount: loadHistory.
HistoryMount ==
  /\ Interactive
  /\ csMounted
  /\ ~hsMounted
  /\ hsMounted' = TRUE
  /\ IssueLoadHistory
  /\ UNCHANGED <<wiped, stApiKey, stHistory, stAuto, stSave, serviceVars, clientVars,
                 settingsVars, alert, cameraScreenVars, cameraViewVars,
                 hsHistory, hsDeletes>>
  /\ UNCHANGED ocrVars

\* onRefresh: loadHistory again.
HistoryRefresh ==
  /\ Interactive
  /\ hsMounted
  /\ NotPending("hsLoad")
  /\ IssueLoadHistory
  /\ UNCHANGED <<wiped, stApiKey, stHistory, stAuto, stSave, serviceVars, clientVars,
                 settingsVars, alert, cameraScreenVars, cameraViewVars,
                 hsMounted, hsHistory, hsDeletes>>
  /\ UNCHANGED ocrVars

\* loadHistory after the read settled.
HistoryLoaded ==
  /\ Settles("hsLoad")
  /\ Settle
  /\ hsHistory' = IF Head(pending).ok /\ hsLoadSnap.has
                    THEN ReviveDates(hsLoadSnap.v)
                    ELSE hsHistory
  /\ hsLoadSnap' = Absent
  /\ UNCHANGED <<wiped, stApiKey, stHistory, stAuto, stSave, stFailures,
                 serviceVars, clientVars,
                 settingsVars, alert, cameraScreenVars, cameraViewVars,
                 hsMounted, hsDeletes>>
  /\ UNCHANGED ocrVars

\* deleteItem, confirmed: the in-memory list is filtered and written.
DeleteItem(itemId) ==
  /\ Interactive
  /\ hsMounted
  /\ hsDeletes < MaxDeletes
  /\ hsDeletes' = hsDeletes + 1
  /\ LET updatedHistory == WithoutId(hsHistory, itemId)
     IN  /\ hsHistory' = updatedHistory
         /\ \E ok \in Outcomes :
              /\ stHistory' = IF ok THEN Stored(Stringify(updatedHistory))
                                    ELSE stHistory
              /\ Counted(ok)
  /\ UNCHANGED <<wiped, stApiKey, stAuto, stSave, pending, serviceVars, clientVars,
                 settingsVars, alert, cameraScreenVars, cameraViewVars,
                 hsMounted, hsLoadSnap>>
  /\ UNCHANGED ocrVars

\* clearHistory, confirmed, up to the await of removeItem.
ClearHistory ==
  /\ Interactive
  /\ hsMounted
  /\ Len(hsHistory) > 0
  /\ NotPending("hsClear")
  /\ \E ok \in Outcomes :
       /\ Issue("hsClear", 0, ok)
       /\ stHistory' = IF ok THEN Absent ELSE stHistory
  /\ UNCHANGED <<wiped, stApiKey, stAuto, stSave, serviceVars, clientVars,
                 settingsVars, alert, cameraScreenVars, cameraViewVars,
                 historyScreenVars>>
  /\ UNCHANGED ocrVars

\* A clearHistory that forgets setHistory([]).
ClearKeepsList ==
  /\ Settles("hsClear")
  /\ Settle
  /\ UNCHANGED <<wiped, stApiKey, stHistory, stAuto, stSave, stFailures,
                 serviceVars, clientVars,
                 settingsVars, alert, cameraScreenVars, cameraViewVars,
                 hsMounted, hsHistory, hsLoadSnap, hsDeletes>>
  /\ UNCHANGED ocrVars

\* clearHistory after removeItem settled: setHistory([]), or the catch.
ClearHistorySettled ==
  /\ Settles("hsClear")
  /\ Settle
  /\ hsHistory' = IF Head(pending).ok THEN <<>> ELSE hsHistory
  /\ UNCHANGED <<wiped, stApiKey, stHistory, stAuto, stSave, stFailures,
                 serviceVars, clientVars,
                 settingsVars, alert, cameraScreenVars, cameraViewVars,
                 hsMounted, hsLoadSnap, hsDeletes>>
  /\ UNCHANGED ocrVars

(***************************************************************************)
(* CameraViewComponent (src/unnamed/part_003).                             *)
(***************************************************************************)
AlertCaptureFailed == <<"taking the picture failed">>
AlertNoText == <<"no text was detected, try again">>
AlertAnalysisFailed == <<"the analysis failed, try again">>

\* The interval timer and the ref that holds it.
TimerState(ref, set) == [ref |-> ref, timers |-> set]

\* stopRealtimeProcessing
StopRealtimeProcessing(st) ==
  IF st.ref # 0
    THEN TimerState(0, {t \in st.timers : t.id # st.ref})
    ELSE st

\* startRealtimeProcessing: the callback closes over the isProcessing and the
\* lastProcessTime of the render whose effect creates the timer.
StartRealtimeProcessing(st, id, capturedProcessing, capturedLast) ==
  IF st.ref # 0
    THEN st
    ELSE TimerState(id, st.timers \cup
           {[id |-> id, capIsProcessing |-> capturedProcessing,
             capLast |-> capturedLast]})

\* The effect on [realtimeEnabled]: the cleanup of the previous run, then the
\* body.
RealtimeEffectRun(st, enabled, id, capturedProcessing, capturedLast) ==
  IF enabled
    THEN StartRealtimeProcessing(StopRealtimeProcessing(st), id,
                                 capturedProcessing, capturedLast)
    ELSE StopRealtimeProcessing(StopRealtimeProcessing(st))

\* The effect of a render whose realtimeEnabled was set outside a user event
\* runs in a task of its own.
RealtimeEffect ==
  /\ cvMounted
  /\ rtEffect # realtimeEnabled
  /\ LET st == RealtimeEffectRun(TimerState(intervalRef, timers),
                                 realtimeEnabled, nextTimer, isProcessing,
                                 lastProcessTime)
     IN  /\ intervalRef' = st.ref
         /\ timers' = st.timers
         /\ nextTimer' = IF st.ref = nextTimer THEN nextTimer + 1 ELSE nextTimer
  /\ rtEffect' = realtimeEnabled
  /\ UNCHANGED autoStopped
  /\ UNCHANGED <<storageVars, serviceVars, clientVars, settingsVars, alert,
                 cameraScreenVars, cvMounted, realtimeEnabled, isProcessing,
                 lastProcessTime, processingRef, periodic, manual,
                 historyScreenVars>>
  /\ UNCHANGED ocrVars

\* toggleRealtime, pressed: the button is disabled while isProcessing.  A
\* pending effect is flushed before the press is rendered, and the effect of
\* the press runs with it.
ToggleRealtime ==
  /\ Interactive
  /\ cvMounted
  /\ ~isProcessing
  /\ nextTimer <= MaxTimers
  /\ LET flushed == IF rtEffect # realtimeEnabled
                      THEN RealtimeEffectRun(TimerState(intervalRef, timers),
                                             realtimeEnabled, nextTimer,
                                             isProcessing, lastProcessTime)
                      ELSE TimerState(intervalRef, timers)
         st == RealtimeEffectRun(flushed, ~realtimeEnabled, nextTimer,
                                 isProcessing, lastProcessTime)
     IN  /\ intervalRef' = st.ref
         /\ timers' = st.timers
         /\ nextTimer' = IF st.ref = nextTimer THEN nextTimer + 1 ELSE nextTimer
  /\ realtimeEnabled' = ~realtimeEnabled
  /\ rtEffect' = ~realtimeEnabled
  /\ autoStopped' = FALSE
  /\ UNCHANGED <<storageVars, serviceVars, clientVars, settingsVars, alert,
                 cameraScreenVars, cvMounted, isProcessing, lastProcessTime,
                 processingRef, periodic, manual, historyScreenVars>>
  /\ UNCHANGED ocrVars

\* A guard that lets every tick through.
GuardIgnored(ref) == TRUE

\* !processingRef.current, tested by the timer callback and again by
\* processCurrentFrame.
GuardFree(ref) == ~ref

\* now - lastProcessTime < 2000 does not hold: always when no run started
\* before the timer's render, else depending on the time passed.
GapElapsed(capturedLast) ==
  IF capturedLast = 0 THEN {TRUE} ELSE BOOLEAN

FreeSlot(runs) ==
  CHOOSE s \in DOMAIN runs :
    /\ runs[s].pc = "idle"
    /\ \A r \in DOMAIN runs : runs[r].pc = "idle" => s <= r

\* A tick of the interval timer that gets past the guards: processCurrentFrame
\* up to the await of takePictureAsync.  A tick that is stopped by a guard
\* changes nothing.
Tick(t) ==
  /\ cvMounted
  /\ t \in timers
  /\ GuardFree(processingRef) /\ ~t.capIsProcessing
  /\ GuardFree(processingRef)
  /\ TRUE \in GapElapsed(t.capLast)
  /\ \E s \in 1..MaxPeriodic : periodic[s].pc = "idle"
  /\ processingRef' = TRUE
  /\ lastProcessTime' = clock
  /\ periodic' = [periodic EXCEPT ![FreeSlot(periodic)] =
       [IdleRun EXCEPT !.pc = "capture", !.timer = t.id]]
  /\ UNCHANGED <<storageVars, serviceVars, clientVars, settingsVars, alert,
                 cameraScreenVars, cvMounted, realtimeEnabled, rtEffect,
                 autoStopped,
                 isProcessing, intervalRef, timers, nextTimer, manual,
                 historyScreenVars>>
  /\ UNCHANGED ocrVars

\* What takePictureAsync gives: a photo with a uri, no photo, or an error.
Photos == {"uri", "none", "throw"}
CameraError == Err("Error", <<"c", "a", "m", "e", "r", "a">>)

\* The code point of a character of the texts put in front of the camera.
CodePoint(c) ==
  CASE c = "U+000A" -> 10
    [] c = " " -> 32
    [] c = "+" -> 43
    [] c = "2" -> 50
    [] c = "=" -> 61
    [] c = "?" -> 63
    [] c = "W" -> 87
    [] c = "a" -> 97
    [] c = "d" -> 100
    [] c = "e" -> 101
    [] c = "h" -> 104
    [] c = "i" -> 105
    [] c = "l" -> 108
    [] c = "o" -> 111
    [] c = "r" -> 114
    [] c = "s" -> 115
    [] c = "t" -> 116
    [] c = "w" -> 119
    [] c = "U+3044" -> 12356
    [] c = "U+304B" -> 12363
    [] c = "U+3053" -> 12371
    [] c = "U+3059" -> 12377
    [] c = "U+3060" -> 12384
    [] c = "U+3067" -> 12391
    [] c = "U+306A" -> 12394
    [] c = "U+306E" -> 12398
    [] c = "U+306F" -> 12399
    [] c = "U+3082" -> 12418
    [] c = "U+308C" -> 12428
    [] c = "U+3093" -> 12435
    [] c = "U+FF1D" -> 65309
    [] c = "U+FF1F" -> 65311

\* replace(/\s+/g, ' '): every run of whitespace becomes one space.
RECURSIVE CollapseSpaces(_)
CollapseSpaces(s) ==
  IF s = <<>> THEN <<>>
  ELSE IF IsSpace(Head(s)) THEN <<" ">> \o CollapseSpaces(TrimStart(s))
  ELSE <<Head(s)>> \o CollapseSpaces(Tail(s))

\* The character class of the second replace of recognizeText: \w, \s,
\* hiragana, katakana, CJK ideographs and + - x / = ( ) ? ! with the
\* ideographic full stop and comma.
KeptChar(c) ==
  LET cp == CodePoint(c) IN
    \/ cp \in 48..57 \/ cp \in 65..90 \/ cp \in 97..122 \/ cp = 95
    \/ IsSpace(c)
    \/ cp \in 12352..12447
    \/ cp \in 12448..12543
    \/ cp \in 19968..40879
    \/ cp \in {43, 45, 215, 247, 61, 40, 41, 63, 33, 12290, 12289}

StripOthers(s) == SelectSeq(s, KeptChar)

\* The clean-up of the engine's text in recognizeText.
CleanText(raw) == Trim(StripOthers(CollapseSpaces(raw)))

\* Math.max(0.1, data.confidence / 100), in hundredths.
FlooredConfidence(percent) == IF percent < 10 THEN 10 ELSE percent

\* What the engine reads off the photo: data.text and data.confidence.
EngineData(raw) == [text |-> raw, confidence |-> 90]

\* What recognizeText gives: the cleaned text with its confidence, or an
\* error.  raw keeps the engine's text the outcome came from.
Recognized(raw) ==
  [ok |-> TRUE, raw |-> raw,
   ocr |-> [text |-> CleanText(EngineData(raw).text),
            confidence |-> FlooredConfidence(EngineData(raw).confidence)],
   error |-> NoError]
RecognizeFailed(msg) ==
  [ok |-> FALSE, raw |-> <<>>, ocr |-> NoOcr, error |-> Err("Error", msg)]

QuestionText ==
  <<"W", "h", "a", "t", " ", "i", "s", " ", "2", "+", "2", "=", "?">>
\* The same question as the engine reads it off two lines.
QuestionOnTwoLines ==
  <<"W", "h", "a", "t", " ", "i", "s", "U+000A", " ", "2", "+", "2", "=",
    "?">>
\* A question in hiragana ending in a full-width question mark.
KanaQuestion ==
  <<"U+3053", "U+308C", "U+306F", "U+306A", "U+3093", "U+306E", "U+3082",
    "U+3093", "U+3060", "U+3044", "U+3067", "U+3059", "U+304B", "U+FF1F">>
\* Texts the engine reads in front of the camera while periodic capture
\* runs, and when the shutter is pressed.
PeriodicTexts ==
  {<<>>, <<"2", "+", "2", "=", "?">>, QuestionText, QuestionOnTwoLines,
   <<"h", "e", "l", "l", "o", " ", "w", "o", "r", "l", "d", "s">>,
   KanaQuestion}
ManualTexts == {<<>>, <<"a">>, QuestionText}
RecognizeOutcomes(texts) ==
  {Recognized(x) : x \in texts}
  \cup {RecognizeFailed(MsgOcrFailed), RecognizeFailed(MsgOcrNoWorker)}

IsDigit(c) == c \in {"0", "1", "2", "3", "4", "5", "6", "7", "8", "9"}

\* The test of processCurrentFrame for a text that looks like a problem.
LooksLikeProblem(text) ==
  /\ text # <<>>
  /\ Len(text) > 10
  /\ \/ Includes(text, <<"?">>)
     \/ Includes(text, <<"U+FF1F">>)
     \/ Includes(text, <<"=">>)
     \/ Includes(text, <<"U+FF1D">>)
     \/ \E i \in 1..Len(text) : IsDigit(text[i])

\* A test that finds no text too short.
NeverTooShort(text) == FALSE

\* The test of takePictureAndAnalyze for a text too short to analyze.
TooShort(text) == text = <<>> \/ Len(text) < 2

\* The exchanges the camera view's calls of analyzeText meet; the text of
\* error.message is the server's to choose.
CameraResponses ==
  {OkBody(200, TRUE, TRUE,
          ObjectText(<<Pair("answer", StrTok("4")),
                       Pair("confidence", NumTok(95))>>)),
   NetworkFailure}
  \cup {ErrorBody(TRUE, st, TRUE, TRUE, c, <<"b", "a", "d">>) :
          st \in {401, 403, 429, 500}, c \in {"", "insufficient_quota"}}
  \cup {ErrorBody(TRUE, 500, TRUE, TRUE, "", NeedleRateLimit)}

\* ocrData and aiData handed to onResult.
OcrData(ocr) == [text |-> ocr.text, confidence |-> ocr.confidence]
AiData(ocr, result) ==
  [question |-> ocr.text, answer |-> result.answer,
   explanation |-> result.explanation, confidence |-> result.confidence]

\* The render of CameraScreen that follows a state set by handleResult or
\* handleCloseResult: hasValidApiKey is computed anew.  A camera view that
\* leaves the tree runs the cleanup of its effect and loses its state; a
\* camera view that enters the tree runs its effect on [apiKey], which hands
\* the screen's apiKey to the service.  `enabled` is the realtimeEnabled the
\* handler leaves to a view that stays.
RenderCameraScreen(enabled) ==
  LET inTree == HasValidApiKey(csApiKey, svcKey)
      st == StopRealtimeProcessing(TimerState(intervalRef, timers))
  IN  /\ cvMounted' = inTree
      /\ IF inTree /\ ~cvMounted
           THEN ServiceSetApiKey(csApiKey)
           ELSE svcKey' = svcKey
      /\ IF cvMounted /\ ~inTree
           THEN /\ intervalRef' = st.ref
                /\ timers' = st.timers
                /\ realtimeEnabled' = FALSE
                /\ rtEffect' = FALSE
                /\ lastProcessTime' = 0
           ELSE /\ realtimeEnabled' = enabled
                /\ UNCHANGED <<intervalRef, timers, rtEffect, lastProcessTime>>

\* handleCloseResult, pressed on the overlay the camera tree shows, and the
\* render that follows.
CloseResult ==
  /\ Interactive
  /\ cvMounted
  /\ csResult
  /\ csResult' = FALSE
  /\ RenderCameraScreen(realtimeEnabled)
  /\ UNCHANGED <<storageVars, httpLog, clientVars, settingsVars, alert,
                 csMounted, csApiKey, csLoadSnap, handlers, clock,
                 autoStopped, isProcessing, processingRef, nextTimer,
                 periodic, manual, historyScreenVars>>
  /\ UNCHANGED ocrVars

\* A catch that notifies nobody.
NotifiesNobody(e) == FALSE

\* The test in the catch of processCurrentFrame.
NotifiesUser(e) ==
  Includes(e.message, NeedleRateLimit) \/ Includes(e.message, NeedleInvalidKey)

\* A finally that leaves the guard as it is.
FinallyKeepsGuard(s) ==
  /\ periodic' = [periodic EXCEPT ![s] = IdleRun]
  /\ processingRef' = processingRef
  /\ isProcessing' = FALSE

\* The finally of processCurrentFrame.
PeriodicFinally(s) ==
  /\ periodic' = [periodic EXCEPT ![s] = IdleRun]
  /\ processingRef' = FALSE
  /\ isProcessing' = FALSE

\* The catch of processCurrentFrame, and its finally.
PeriodicCatch(s, e) ==
  /\ PeriodicFinally(s)
  /\ IF NotifiesUser(e)
       THEN /\ Show("API Error", e.message)
            /\ realtimeEnabled' = FALSE
       ELSE UNCHANGED <<alert, realtimeEnabled>>

\* processCurrentFrame after takePictureAsync settled.
PeriodicCaptured(s, photo) ==
  /\ periodic[s].pc = "capture"
  /\ IF photo = "uri"
       THEN /\ periodic' = [periodic EXCEPT ![s].pc = "ocr"]
            /\ UNCHANGED <<processingRef, isProcessing, alert, realtimeEnabled>>
     ELSE IF photo = "none"
       THEN /\ PeriodicFinally(s)
            /\ UNCHANGED <<alert, realtimeEnabled>>
     ELSE PeriodicCatch(s, CameraError)
  /\ UNCHANGED <<storageVars, serviceVars, clientVars, settingsVars,
                 cameraScreenVars, cvMounted, rtEffect,
                 autoStopped, lastProcessTime,
                 intervalRef, timers, nextTimer, manual, historyScreenVars>>
  /\ UNCHANGED ocrVars

\* processCurrentFrame after recognizeText settled: the filter, and the call
\* of analyzeText up to its fetch.
PeriodicRecognized(s, o) ==
  /\ periodic[s].pc = "ocr"
  /\ IF ~o.ok
       THEN PeriodicCatch(s, o.error) /\ UNCHANGED httpLog
     ELSE IF ~LooksLikeProblem(o.ocr.text)
       THEN /\ PeriodicFinally(s)
            /\ UNCHANGED <<alert, realtimeEnabled, httpLog>>
     ELSE IF KeyMissing(svcKey)
       THEN PeriodicCatch(s, NotConfigured.error) /\ UNCHANGED httpLog
     ELSE /\ isProcessing' = TRUE
          /\ SendRequest
          /\ periodic' = [periodic EXCEPT ![s].pc = "ai", ![s].ocr = o.ocr]
          /\ UNCHANGED <<processingRef, alert, realtimeEnabled>>
  /\ UNCHANGED <<storageVars, svcKey, clientVars, settingsVars,
                 cameraScreenVars, cvMounted, rtEffect,
                 autoStopped, lastProcessTime,
                 intervalRef, timers, nextTimer, manual, historyScreenVars>>
  /\ UNCHANGED ocrVars

\* processCurrentFrame after analyzeText settled: onResult and
\* setRealtimeEnabled(false), or the catch.
PeriodicAnalyzed(s, r) ==
  /\ periodic[s].pc = "ai"
  /\ LET out == AnalyzeResponse(r)
     IN  IF out.ok
           THEN /\ MayForward
                /\ HandleResultStart(FreeHandler, OcrData(periodic[s].ocr),
                                     AiData(periodic[s].ocr, out.result))
                /\ RenderCameraScreen(FALSE)
                /\ autoStopped' = TRUE
                /\ PeriodicFinally(s)
                /\ UNCHANGED alert
           ELSE /\ PeriodicCatch(s, out.error)
                /\ UNCHANGED <<pending, stFailures, csResult, handlers,
                               autoStopped, svcKey, cvMounted, rtEffect,
                               lastProcessTime, intervalRef, timers>>
  /\ UNCHANGED <<wiped, stApiKey, stHistory, stAuto, stSave, httpLog,
                 clientVars, settingsVars, csMounted, csApiKey, csLoadSnap,
                 clock, nextTimer, manual, historyScreenVars>>
  /\ UNCHANGED ocrVars

\* The finally of takePictureAndAnalyze.
ManualFinally(m) ==
  /\ manual' = [manual EXCEPT ![m] = IdleRun]
  /\ isProcessing' = FALSE

\* The catch of takePictureAndAnalyze, and its finally.
ManualCatch(m, e) ==
  /\ ManualFinally(m)
  /\ Show("Error", AlertAnalysisFailed)

\* takePictureAndAnalyze, pressed, up to the await of takePictureAsync.
ManualStart ==
  /\ Interactive
  /\ cvMounted
  /\ ~isProcessing
  /\ \E m \in 1..MaxManual : manual[m].pc = "idle"
  /\ isProcessing' = TRUE
  /\ manual' = [manual EXCEPT ![FreeSlot(manual)] =
       [IdleRun EXCEPT !.pc = "capture"]]
  /\ UNCHANGED <<storageVars, serviceVars, clientVars, settingsVars, alert,
                 cameraScreenVars, cvMounted, realtimeEnabled, rtEffect,
                 autoStopped,
                 lastProcessTime, processingRef, intervalRef, timers,
                 nextTimer, periodic, historyScreenVars>>
  /\ UNCHANGED ocrVars

\* takePictureAndAnalyze after takePictureAsync settled.
ManualCaptured(m, photo) ==
  /\ manual[m].pc = "capture"
  /\ IF photo = "uri"
       THEN /\ manual' = [manual EXCEPT ![m].pc = "ocr"]
            /\ UNCHANGED <<isProcessing, alert>>
     ELSE IF photo = "none"
       THEN /\ Show("Error", AlertCaptureFailed)
            /\ ManualFinally(m)
     ELSE ManualCatch(m, CameraError)
  /\ UNCHANGED <<storageVars, serviceVars, clientVars, settingsVars,
                 cameraScreenVars, cvMounted, realtimeEnabled, rtEffect,
                 autoStopped,
                 lastProcessTime, processingRef, intervalRef, timers,
                 nextTimer, periodic, historyScreenVars>>
  /\ UNCHANGED ocrVars

\* takePictureAndAnalyze after recognizeText settled: the length test, and the
\* call of analyzeText up to its fetch.
ManualRecognized(m, o) ==
  /\ manual[m].pc = "ocr"
  /\ IF ~o.ok
       THEN ManualCatch(m, o.error) /\ UNCHANGED httpLog
     ELSE IF TooShort(o.ocr.text)
       THEN /\ Show("Error", AlertNoText)
            /\ ManualFinally(m)
            /\ UNCHANGED httpLog
     ELSE IF KeyMissing(svcKey)
       THEN ManualCatch(m, NotConfigured.error) /\ UNCHANGED httpLog
     ELSE /\ SendRequest
          /\ manual' = [manual EXCEPT ![m].pc = "ai", ![m].ocr = o.ocr]
          /\ UNCHANGED <<isProcessing, alert>>
  /\ UNCHANGED <<storageVars, svcKey, clientVars, settingsVars,
                 cameraScreenVars, cvMounted, realtimeEnabled, rtEffect,
                 autoStopped,
                 lastProcessTime, processingRef, intervalRef, timers,
                 nextTimer, periodic, historyScreenVars>>
  /\ UNCHANGED ocrVars

\* takePictureAndAnalyze after analyzeText settled: onResult, or the catch.
ManualAnalyzed(m, r) ==
  /\ manual[m].pc = "ai"
  /\ LET out == AnalyzeResponse(r)
     IN  IF out.ok
           THEN /\ MayForward
                /\ HandleResultStart(FreeHandler, OcrData(manual[m].ocr),
                                     AiData(manual[m].ocr, out.result))
                /\ RenderCameraScreen(realtimeEnabled)
                /\ ManualFinally(m)
                /\ UNCHANGED alert
           ELSE /\ ManualCatch(m, out.error)
                /\ UNCHANGED <<pending, stFailures, csResult, handlers,
                               svcKey, cvMounted, realtimeEnabled, rtEffect,
                               lastProcessTime, intervalRef, timers>>
  /\ UNCHANGED <<wiped, stApiKey, stHistory, stAuto, stSave, httpLog,
                 clientVars, settingsVars, csMounted, csApiKey, csLoadSnap,
                 clock, autoStopped, processingRef, nextTimer, periodic,
                 historyScreenVars>>
  /\ UNCHANGED ocrVars

(***************************************************************************)
(* OCRService (src/unnamed/part_002): initialize, recognizeText and        *)
(* terminate called by any number of callers.  Each action is one          *)
(* continuation: the code between two awaits.                              *)
(***************************************************************************)
appVars ==
  <<storageVars, serviceVars, clientVars, settingsVars, alert,
    cameraScreenVars, cameraViewVars, historyScreenVars>>

\* A call is made: a free invocation record, within the session's budget.
CallStarts(c) ==
  /\ calls[c].pc = "idle"
  /\ ocrCalls < MaxOcrCalls
  /\ ocrCalls' = ocrCalls + 1

\* initialize past its isInitialized test, up to its first await: a caller
\* that finds an initialization under way polls, any other starts one.
InitializeBegin(c, op) ==
  IF isInitializing
    THEN /\ calls' = [calls EXCEPT ![c] = [op |-> op, pc |-> "poll", w |-> 0]]
         /\ UNCHANGED isInitializing
    ELSE /\ isInitializing' = TRUE
         /\ calls' = [calls EXCEPT ![c] = [op |-> op, pc |-> "create", w |-> 0]]

\* The end of a call of initialize: the caller of initialize has its result,
\* recognizeText goes on with its worker test and calls the engine.
InitializeEnds(c, thrown) ==
  IF calls[c].op = "recognize" /\ ~thrown /\ worker' # 0
    THEN calls' = [calls EXCEPT ![c].pc = "engine", ![c].w = worker']
    ELSE calls' = [calls EXCEPT ![c] = IdleCall]

\* initialize()
InitializeCall(c) ==
  /\ CallStarts(c)
  /\ IF isInitialized
       THEN UNCHANGED <<calls, isInitializing>>
       ELSE InitializeBegin(c, "initialize")
  /\ UNCHANGED <<worker, isInitialized, liveWorkers, nextWorker, appVars>>

\* The 100 ms timer of a polling caller fires and finds no initialization
\* under way: the loop ends and initialize returns.  (A caller that finds
\* one polls again, which changes nothing.)
PollEnds(c) ==
  /\ calls[c].pc = "poll"
  /\ ~isInitializing
  /\ UNCHANGED <<worker, isInitialized, isInitializing, liveWorkers,
                 nextWorker, ocrCalls, appVars>>
  /\ InitializeEnds(c, FALSE)

\* createWorker settled: the worker is stored and setParameters is called on
\* it, or the catch and the finally of initialize run.
CreateWorkerSettled(c, ok) ==
  /\ calls[c].pc = "create"
  /\ IF ok
       THEN /\ nextWorker <= MaxWorkers
            /\ worker' = nextWorker
            /\ nextWorker' = nextWorker + 1
            /\ liveWorkers' = liveWorkers \cup {nextWorker}
            /\ calls' = [calls EXCEPT ![c].pc = "params", ![c].w = nextWorker]
            /\ UNCHANGED isInitializing
       ELSE /\ isInitializing' = FALSE
            /\ UNCHANGED <<worker, nextWorker, liveWorkers>>
            /\ InitializeEnds(c, TRUE)
  /\ UNCHANGED <<isInitialized, ocrCalls, appVars>>

\* setParameters settled: isInitialized is set, or the catch runs; then the
\* finally.  The worker stays in this.worker either way.
SetParametersSettled(c, ok) ==
  /\ calls[c].pc = "params"
  /\ isInitialized' = IF ok THEN TRUE ELSE isInitialized
  /\ isInitializing' = FALSE
  /\ UNCHANGED <<worker, liveWorkers, nextWorker, ocrCalls, appVars>>
  /\ InitializeEnds(c, ~ok)

\* recognizeText(): initialize if not initialized, else the worker test and
\* the call of the engine.
RecognizeCall(c) ==
  /\ CallStarts(c)
  /\ UNCHANGED <<worker, isInitialized, liveWorkers, nextWorker, appVars>>
  /\ IF ~isInitialized
       THEN InitializeBegin(c, "recognize")
       ELSE /\ UNCHANGED isInitializing
            /\ IF worker = 0
                 THEN UNCHANGED calls
                 ELSE calls' = [calls EXCEPT ![c] =
                        [op |-> "recognize", pc |-> "engine", w |-> worker]]

\* worker.recognize settled: the cleaned text is returned, or the catch
\* throws.
RecognizeSettled(c) ==
  /\ calls[c].pc = "engine"
  /\ calls' = [calls EXCEPT ![c] = IdleCall]
  /\ UNCHANGED <<worker, isInitialized, isInitializing, liveWorkers,
                 nextWorker, ocrCalls, appVars>>

\* terminate(): nothing without a worker, else worker.terminate is awaited.
TerminateCall(c) ==
  /\ CallStarts(c)
  /\ IF worker # 0
       THEN calls' = [calls EXCEPT ![c] =
              [op |-> "terminate", pc |-> "term", w |-> worker]]
       ELSE UNCHANGED calls
  /\ UNCHANGED <<worker, isInitialized, isInitializing, liveWorkers,
                 nextWorker, appVars>>

\* worker.terminate settled, resolved or rejected: the finally.
TerminateSettled(c, ok) ==
  /\ calls[c].pc = "term"
  /\ worker' = 0
  /\ isInitialized' = FALSE
  /\ isInitializing' = FALSE
  /\ liveWorkers' = IF ok THEN liveWorkers \ {calls[c].w} ELSE liveWorkers
  /\ calls' = [calls EXCEPT ![c] = IdleCall]
  /\ UNCHANGED <<nextWorker, ocrCalls, appVars>>

NextOcr ==
  \/ \E c \in 1..MaxCalls : InitializeCall(c)
  \/ \E c \in 1..MaxCalls : PollEnds(c)
  \/ \E c \in 1..MaxCalls, ok \in BOOLEAN : CreateWorkerSettled(c, ok)
  \/ \E c \in 1..MaxCalls, ok \in BOOLEAN : SetParametersSettled(c, ok)
  \/ \E c \in 1..MaxCalls : RecognizeCall(c)
  \/ \E c \in 1..MaxCalls : RecognizeSettled(c)
  \/ \E c \in 1..MaxCalls : TerminateCall(c)
  \/ \E c \in 1..MaxCalls, ok \in BOOLEAN : TerminateSettled(c, ok)

SpecOcr == Init /\ [][NextOcr]_vars

(***************************************************************************)
(* The process is killed and started again: memory is lost, the store and  *)
(* the clock are kept, unsettled promises are gone.                        *)
(***************************************************************************)
AppRestart ==
  /\ csMounted
  /\ pending' = <<>>
  /\ svcKey' = <<>>
  /\ an' = AnIdle
  /\ seMounted' = FALSE
  /\ seApiKey' = <<>>
  /\ seAuto' = FALSE
  /\ seSave' = TRUE
  /\ seLoading' = FALSE
  /\ seSaveKey' = <<>>
  /\ seLoadSnap' = NoSettingsSnap
  /\ alert' = NoAlert
  /\ csMounted' = FALSE
  /\ csApiKey' = <<>>
  /\ csResult' = FALSE
  /\ csLoadSnap' = Absent
  /\ handlers' = [h \in 1..MaxHandlers |-> IdleHandler]
  /\ cvMounted' = FALSE
  /\ realtimeEnabled' = FALSE
  /\ rtEffect' = FALSE
  /\ autoStopped' = FALSE
  /\ isProcessing' = FALSE
  /\ lastProcessTime' = 0
  /\ processingRef' = FALSE
  /\ intervalRef' = 0
  /\ timers' = {}
  /\ periodic' = [p \in 1..MaxPeriodic |-> IdleRun]
  /\ manual' = [m \in 1..MaxManual |-> IdleRun]
  /\ hsMounted' = FALSE
  /\ hsHistory' = <<>>
  /\ hsLoadSnap' = Absent
  /\ hsDeletes' = 0
  /\ UNCHANGED <<wiped, stApiKey, stHistory, stAuto, stSave, stFailures, httpLog,
                 givenKey, clock, nextTimer>>
  /\ worker' = 0
  /\ isInitialized' = FALSE
  /\ isInitializing' = FALSE
  /\ liveWorkers' = {}
  /\ calls' = [c \in 1..MaxCalls |-> IdleCall]
  /\ UNCHANGED <<nextWorker, ocrCalls>>

(***************************************************************************)
(* The credential store: the settings screen beside the camera screen's    *)
(* load of the credential.                                                 *)
(***************************************************************************)
NextCred ==
  \/ CameraMount
  \/ CameraKeyLoaded
  \/ SettingsMount
  \/ SettingsLoaded
  \/ \E t \in KeyInputs : TypeApiKey(t)
  \/ SaveApiKey
  \/ SaveApiKeySettled
  \/ DeleteApiKey
  \/ DeleteApiKeySettled
  \/ ClearAllData
  \/ ClearAllDataSettled
  \/ DismissAlert
  \/ AppRestart

SpecCred == Init /\ [][NextCred]_vars

(***************************************************************************)
(* The history store: a session that starts with a history persisted by    *)
(* earlier sessions, and in which the camera view forwards results.        *)
(***************************************************************************)
SampleOcr ==
  [text |-> <<"W", "h", "a", "t", " ", "i", "s", " ", "2", "+", "2", "=", "?">>,
   confidence |-> 90]

SampleAi ==
  ParseContent(ObjectText(<<Pair("answer", StrTok("4")), Pair("confidence", NumTok(95))>>))

\* The list k earlier appends left in the store, newest first.
OldList(k) ==
  [i \in 1..k |-> [Entry(k + 1 - i, SampleOcr, SampleAi) EXCEPT !.ts = "iso"]]

StoredHistories ==
  {Absent} \cup {Stored(OldList(k)) : k \in {HistoryCap - 1, HistoryCap}}

InitHistory ==
  /\ stApiKey = Stored(KeyPrefix \o <<"a">>)
  /\ stHistory \in StoredHistories
  /\ stAuto = Absent
  /\ stSave = Absent
  /\ stFailures = 0
  /\ MemoryFresh
  /\ httpLog = {}
  /\ givenKey = Stored(KeyPrefix \o <<"a">>)
  /\ clock = Epoch
  /\ nextTimer = 1

\* The camera view calls onResult with a recognition and a completion.
ForwardResult(ocr, ai) ==
  /\ cvMounted
  /\ MayForward
  /\ HandleResultStart(FreeHandler, ocr, ai)
  /\ RenderCameraScreen(realtimeEnabled)
  /\ UNCHANGED <<wiped, stApiKey, stHistory, stAuto, stSave, httpLog,
                 clientVars, settingsVars, alert, csMounted, csApiKey,
                 csLoadSnap, clock, autoStopped, isProcessing, processingRef,
                 nextTimer, periodic, manual, historyScreenVars>>
  /\ UNCHANGED ocrVars

NextHistory ==
  \/ CameraMount
  \/ CameraKeyLoaded
  \/ ForwardResult(SampleOcr, SampleAi)
  \/ \E h \in 1..MaxHandlers : HandleResultRead(h)
  \/ HistoryMount
  \/ HistoryRefresh
  \/ HistoryLoaded
  \/ \E id \in Deletable(hsHistory) : DeleteItem(id)
  \/ ClearHistory
  \/ ClearHistorySettled

SpecHistory == InitHistory /\ [][NextHistory]_vars

(***************************************************************************)
(* The camera: a session with a persisted credential in which the user     *)
(* toggles periodic capture and presses the shutter.                       *)
(***************************************************************************)
InitCamera ==
  /\ stApiKey = Stored(KeyPrefix \o <<"a">>)
  /\ stHistory = Absent
  /\ stAuto = Absent
  /\ stSave = Absent
  /\ stFailures = 0
  /\ MemoryFresh
  /\ httpLog = {}
  /\ givenKey = Stored(KeyPrefix \o <<"a">>)
  /\ clock = Epoch
  /\ nextTimer = 1

NextCamera ==
  \/ CameraMount
  \/ CameraKeyLoaded
  \/ ToggleRealtime
  \/ RealtimeEffect
  \/ \E t \in timers : Tick(t)
  \/ \E s \in 1..MaxPeriodic, photo \in Photos : PeriodicCaptured(s, photo)
  \/ \E s \in 1..MaxPeriodic, o \in RecognizeOutcomes(PeriodicTexts) :
       PeriodicRecognized(s, o)
  \/ \E s \in 1..MaxPeriodic, r \in CameraResponses : PeriodicAnalyzed(s, r)
  \/ ManualStart
  \/ \E m \in 1..MaxManual, photo \in Photos : ManualCaptured(m, photo)
  \/ \E m \in 1..MaxManual, o \in RecognizeOutcomes(ManualTexts) :
       ManualRecognized(m, o)
  \/ \E m \in 1..MaxManual, r \in CameraResponses : ManualAnalyzed(m, r)
  \/ \E h \in 1..MaxHandlers : HandleResultRead(h)
  \/ DismissAlert

SpecCamera == InitCamera /\ [][NextCamera]_vars

(***************************************************************************)
(* Persistence: a session over all three screens in which a storage call   *)
(* may be rejected.  The user acts when no storage call is pending, and    *)
(* the credential typed is the one already persisted.                      *)
(***************************************************************************)
Quiet == pending = <<>>

NextPersist ==
  \/ Quiet /\ CameraMount
  \/ CameraKeyLoaded
  \/ Quiet /\ ForwardResult(SampleOcr, SampleAi)
  \/ \E h \in 1..MaxHandlers : HandleResultRead(h)
  \/ Quiet /\ SettingsMount
  \/ SettingsLoaded
  \/ Quiet /\ TypeApiKey(KeyPrefix \o <<"a">>)
  \/ Quiet /\ SaveApiKey
  \/ SaveApiKeySettled
  \/ Quiet /\ DeleteApiKey
  \/ DeleteApiKeySettled
  \/ Quiet /\ ClearAllData
  \/ ClearAllDataSettled
  \/ \E value \in BOOLEAN : Quiet /\ ToggleAutoCapture(value)
  \/ \E value \in BOOLEAN : Quiet /\ ToggleSaveHistory(value)
  \/ Quiet /\ HistoryMount
  \/ Quiet /\ HistoryRefresh
  \/ HistoryLoaded
  \/ \E id \in Deletable(hsHistory) : Quiet /\ DeleteItem(id)
  \/ Quiet /\ ClearHistory
  \/ ClearHistorySettled
  \/ DismissAlert

SpecPersist == InitCamera /\ [][NextPersist]_vars

(***************************************************************************)
(* The credential in use: a session with a persisted credential in which   *)
(* the user presses the shutter, closes the result, and saves or deletes   *)
(* the credential in Settings while a capture may still be under way.      *)
(***************************************************************************)
RenderResponses ==
  {OkBody(200, TRUE, TRUE,
          ObjectText(<<Pair("answer", StrTok("4")),
                       Pair("confidence", NumTok(95))>>)),
   NetworkFailure}

NextRender ==
  \/ Quiet /\ CameraMount
  \/ CameraKeyLoaded
  \/ Quiet /\ ManualStart
  \/ \E m \in 1..MaxManual : ManualCaptured(m, "uri")
  \/ \E m \in 1..MaxManual : ManualRecognized(m, Recognized(QuestionText))
  \/ \E m \in 1..MaxManual, r \in RenderResponses : ManualAnalyzed(m, r)
  \/ \E h \in 1..MaxHandlers : HandleResultRead(h)
  \/ Quiet /\ CloseResult
  \/ Quiet /\ SettingsMount
  \/ SettingsLoaded
  \/ Quiet /\ TypeApiKey(KeyPrefix \o <<"b">>)
  \/ Quiet /\ SaveApiKey
  \/ SaveApiKeySettled
  \/ Quiet /\ DeleteApiKey
  \/ DeleteApiKeySettled
  \/ Quiet /\ ClearAllData
  \/ ClearAllDataSettled
  \/ DismissAlert

SpecRender == InitCamera /\ [][NextRender]_vars

(***************************************************************************)
(* Periodic capture alone, with the I/O of every attempt settling: the     *)
(* capture, the recognition and the request.                               *)
(***************************************************************************)
LiveTexts == {<<>>, QuestionText}

LiveResponses ==
  RenderResponses
  \cup {ErrorBody(TRUE, 401, TRUE, TRUE, "", <<"b", "a", "d">>)}

CaptureSettles ==
  \E s \in 1..MaxPeriodic, photo \in Photos : PeriodicCaptured(s, photo)

RecognitionSettles ==
  \E s \in 1..MaxPeriodic, o \in RecognizeOutcomes(LiveTexts) :
    PeriodicRecognized(s, o)

RequestSettles ==
  \E s \in 1..MaxPeriodic, r \in LiveResponses : PeriodicAnalyzed(s, r)

NextPeriodic ==
  \/ CameraMount
  \/ CameraKeyLoaded
  \/ ToggleRealtime
  \/ RealtimeEffect
  \/ \E t \in timers : Tick(t)
  \/ CaptureSettles
  \/ RecognitionSettles
  \/ RequestSettles
  \/ \E h \in 1..MaxHandlers : HandleResultRead(h)
  \/ DismissAlert

FairPeriodic ==
  /\ InitCamera
  /\ [][NextPeriodic]_vars
  /\ WF_vars(CaptureSettles)
  /\ WF_vars(RecognitionSettles)
  /\ WF_vars(RequestSettles)

(***************************************************************************)
(* The save-history preference and the history: sessions that start with   *)
(* the preference absent, stored true or stored false, and are otherwise   *)
(* alike.  The settings screen reads the preference; the camera screen     *)
(* forwards results; the history screen shows what was stored.             *)
(***************************************************************************)
\* What an earlier session can have left under 'save_history'.
SavedFlags == {Absent} \cup {Stored(BoolText(b)) : b \in BOOLEAN}

InitFlag ==
  /\ stApiKey = Stored(KeyPrefix \o <<"a">>)
  /\ stHistory \in StoredHistories
  /\ stAuto = Absent
  /\ stSave \in SavedFlags
  /\ stFailures = 0
  /\ MemoryFresh
  /\ httpLog = {}
  /\ givenKey = Stored(KeyPrefix \o <<"a">>)
  /\ clock = Epoch
  /\ nextTimer = 1

NextFlag ==
  \/ CameraMount
  \/ CameraKeyLoaded
  \/ SettingsMount
  \/ SettingsLoaded
  \/ ForwardResult(SampleOcr, SampleAi)
  \/ \E h \in 1..MaxHandlers : HandleResultRead(h)
  \/ HistoryMount
  \/ HistoryRefresh
  \/ HistoryLoaded

SpecFlag == InitFlag /\ [][NextFlag]_vars

(***************************************************************************)
(*                               CLAIMS                                    *)
(***************************************************************************)

\* C3 (as stated): given a successful response whose message content is 42,
\* analyzeText returns the whole content as the answer, the fixed filler as
\* the explanation and the confidence 0.8.
C3_RawContentIsAnswer ==
  (an.pc = "done" /\ an.resp = OkBody(200, TRUE, TRUE, Content42))
    => an.out = Returned([answer |-> JStr(Content42),
                          explanation |-> JStr(FillerExplanation),
                          confidence |-> JNum(FallbackConfidence)])

\* The typed error the specification assigns to a non-success exchange.
C4_Kind(e) ==
  IF e.name # "Error" THEN "Other"
  ELSE IF e.message = MsgInvalidKey THEN "InvalidCredential"
  ELSE IF e.message = MsgQuota THEN "QuotaExceeded"
  ELSE IF e.message = MsgRateLimit THEN "RateLimited"
  ELSE IF e.message = MsgForbidden THEN "Forbidden"
  ELSE IF StartsWith(e.message, MsgApiErrorPrefix) THEN "UpstreamError"
  ELSE "Other"

C4_Expected(r) ==
  IF r.status = 401 THEN "InvalidCredential"
  ELSE IF r.status = 429 /\ r.hasError /\ r.code = "insufficient_quota"
    THEN "QuotaExceeded"
  ELSE IF r.status = 429 THEN "RateLimited"
  ELSE IF r.status = 403 THEN "Forbidden"
  ELSE "UpstreamError"

\* C4 (as stated): every non-success HTTP response makes analyzeText fail
\* with the typed error its status (and, for 429, the quota code) determines;
\* an UpstreamError carries the status and the message.
C4_StatusDecidesError ==
  (an.pc = "done" /\ an.resp.net /\ ~ResponseOk(an.resp.status))
    => /\ ~an.out.ok
       /\ C4_Kind(an.out.error) = C4_Expected(an.resp)
       /\ C4_Kind(an.out.error) = "UpstreamError"
            => /\ Includes(an.out.error.message, Digits(an.resp.status))
               /\ Includes(an.out.error.message, an.resp.message)

\* C5: with no credential set analyzeText fails with the not-configured
\* error and sends nothing; every request that is sent carries the
\* non-empty credential set at that moment.
C5_NoRequestWithoutKey ==
  /\ [][(an.pc = "idle" /\ an'.pc # "idle" /\ KeyMissing(svcKey))
          => (an'.pc = "done" /\ an'.out = NotConfigured
              /\ httpLog' = httpLog)]_vars
  /\ [][httpLog' # httpLog
          => (svcKey # <<>> /\ httpLog' = httpLog \cup {[auth |-> svcKey]})]_vars
  /\ [](\A q \in httpLog : q.auth # <<>>)

C5_Witness ==
  /\ an.pc = "done"
  /\ an.out = NotConfigured
  /\ svcKey = <<>>
  /\ httpLog # {}


\* C1: the persisted history never holds more than 20 entries, whatever
\* appends, removals and clears happened; an append (handleResult) that writes
\* puts the new entry first, and when the list it appends to already holds 20
\* entries it keeps the first 19 of them in their order and drops the last.
C1_ReadList(h) == IF handlers[h].snap.has THEN handlers[h].snap.v ELSE <<>>

C1_HistoryCapped ==
  /\ [](stHistory.has => Len(stHistory.v) <= HistoryCap)
  /\ [][\A h \in 1..MaxHandlers :
          (handlers[h].pc = "read" /\ handlers'[h].pc = "idle"
             /\ stHistory' # stHistory)
            => /\ stHistory'.has
               /\ Len(stHistory'.v) >= 1
               /\ Head(stHistory'.v) =
                    [id |-> clock', ocr |-> handlers[h].ocr,
                     ai |-> handlers[h].ai, ts |-> "iso"]
               /\ Tail(stHistory'.v) =
                    IF Len(C1_ReadList(h)) >= HistoryCap
                      THEN SubSeq(C1_ReadList(h), 1, HistoryCap - 1)
                      ELSE C1_ReadList(h)]_vars

\* An append to a full list has been written: the newest entry is first, the
\* entry that was second oldest is last.
C1_Witness ==
  /\ stHistory.has
  /\ Len(stHistory.v) = HistoryCap
  /\ stHistory.v[1].id = Epoch + 1
  /\ stHistory.v[HistoryCap].id = 2


\* C6 (as stated): for every valid credential, a successful save followed by
\* a load returns the value that was given to save, and the service's active
\* credential equals that value.
C6_LoadsSavedKey ==
  SettingsLoaded /\ Head(pending).ok /\ seLoadSnap.given.has

C6_SaveThenLoadSame ==
  /\ [][C6_LoadsSavedKey
          => /\ seApiKey' = seLoadSnap.given.v
             /\ svcKey' = seLoadSnap.given.v]_vars
  /\ [][(SaveApiKeySettled /\ Head(pending).ok) => svcKey' = seSaveKey]_vars

\* C6 (amended): saveApiKey persists the given value with the surrounding
\* white space removed; a load after a successful save returns that trimmed
\* value, and after the save as after the load the service's active
\* credential equals the trimmed value.
C6_SaveThenLoadTrimmed ==
  /\ [](stApiKey.has => (givenKey.has /\ stApiKey.v = Trim(givenKey.v)))
  /\ [][C6_LoadsSavedKey
          => /\ seApiKey' = Trim(seLoadSnap.given.v)
             /\ svcKey' = Trim(seLoadSnap.given.v)]_vars
  /\ [][(SaveApiKeySettled /\ Head(pending).ok)
          => svcKey' = Trim(seSaveKey)]_vars

\* A credential given with a trailing blank was saved, the application was
\* started again and the settings screen loaded the trimmed value.
C6_Witness ==
  /\ givenKey.has
  /\ Trim(givenKey.v) # givenKey.v
  /\ stApiKey = Stored(Trim(givenKey.v))
  /\ seMounted
  /\ NotPending("seLoad")
  /\ seApiKey = Trim(givenKey.v)
  /\ svcKey = Trim(givenKey.v)
  /\ csApiKey = Trim(givenKey.v)
  /\ alert = NoAlert

\* C7: saveApiKey with an input that is empty, blank or does not start with
\* sk- shows an error alert and changes neither the persisted credential nor
\* the service's active credential; nothing is written to the store.
C7_Invalid(key) == Trim(key) = <<>> \/ ~StartsWith(key, KeyPrefix)

C7_InvalidKeyRejected ==
  /\ [][(SaveApiKey /\ C7_Invalid(seApiKey))
          => /\ alert'.title = "Error"
             /\ alert'.msg \in {AlertEnterKey, AlertBadPrefix}
             /\ stApiKey' = stApiKey
             /\ svcKey' = svcKey
             /\ pending' = pending]_vars
  /\ [](stApiKey.has => ~C7_Invalid(stApiKey.v))
  /\ [](givenKey.has => ~C7_Invalid(givenKey.v))

\* An input with a blank before the prefix was rejected while an earlier
\* credential stays persisted and active.
C7_Witness ==
  /\ alert = [title |-> "Error", msg |-> AlertBadPrefix]
  /\ Trim(seApiKey) # seApiKey
  /\ StartsWith(Trim(seApiKey), KeyPrefix)
  /\ stApiKey.has
  /\ svcKey = stApiKey.v
  /\ stApiKey.v # Trim(seApiKey)


\* C2: two periodic runs never overlap.  At most one run of
\* processCurrentFrame is in flight, it holds the guard (processingRef) from
\* its start to its end, and while the guard is held no tick starts a run,
\* whichever timer ticks: a run starts only from a tick of a live timer that
\* finds the guard free and no run in flight.
C2_InFlight == {s \in 1..MaxPeriodic : periodic[s].pc # "idle"}

C2_NoOverlappingRuns ==
  /\ [](Cardinality(C2_InFlight) <= 1)
  /\ [](C2_InFlight # {} => processingRef)
  /\ [][\A s \in 1..MaxPeriodic :
          (periodic[s].pc = "idle" /\ periodic'[s].pc # "idle")
            => /\ ~processingRef
               /\ C2_InFlight = {}
               /\ \E t \in timers : t.id = periodic'[s].timer]_vars

\* A run is in flight while the timer that started it was cleared and another
\* one, created by toggling periodic capture off and on, is ticking.
C2_Witness ==
  \E s \in 1..MaxPeriodic :
    /\ periodic[s].pc # "idle"
    /\ processingRef
    /\ intervalRef # 0
    /\ intervalRef # periodic[s].timer
    /\ \E t \in timers : t.id = intervalRef

\* A step in which a periodic run's call of analyzeText ends with the error e.
PeriodicAnalyzeFails(e) ==
  \E s \in 1..MaxPeriodic, r \in CameraResponses :
    /\ AnalyzeResponse(r) = Thrown(e)
    /\ PeriodicAnalyzed(s, r)

ApiErrorAlert(e) == [title |-> "API Error", msg |-> e.message]

\* C8: when the analyzeText call of a periodic run fails with the invalid-key
\* error (401) or the rate-limit error (429 without the quota code), the
\* error's message is shown in an alert and periodic capture is switched off;
\* once the effect of switching it off has run, no timer is left.
C8_AuthOrRateLimitStopsPeriodic ==
  /\ [][\A msg \in {MsgInvalidKey, MsgRateLimit} :
          PeriodicAnalyzeFails(Err("Error", msg))
            => /\ alert' = ApiErrorAlert(Err("Error", msg))
               /\ ~realtimeEnabled']_vars
  /\ []((~realtimeEnabled /\ rtEffect = realtimeEnabled)
          => (intervalRef = 0 /\ timers = {}))

\* The invalid-key alert is up, periodic capture is off and its timer, which
\* had been created, is gone.
C8_Witness ==
  /\ alert = ApiErrorAlert(Err("Error", MsgInvalidKey))
  /\ ~realtimeEnabled
  /\ rtEffect = realtimeEnabled
  /\ timers = {}
  /\ nextTimer > 1
  /\ \A s \in 1..MaxPeriodic : periodic[s].pc = "idle"

\* C9 (as stated): when the analyzeText call of a periodic run fails with the
\* forbidden error (403), the error is shown in an alert and periodic capture
\* is switched off.
C9_ForbiddenStopsPeriodic ==
  [][PeriodicAnalyzeFails(Err("Error", MsgForbidden))
       => /\ alert' = ApiErrorAlert(Err("Error", MsgForbidden))
          /\ ~realtimeEnabled']_vars

\* C10 (as stated): when the analyzeText call of a periodic run fails with
\* the quota error (429 with the code insufficient_quota), the error is shown
\* in an alert and periodic capture is switched off.
C10_QuotaStopsPeriodic ==
  [][PeriodicAnalyzeFails(Err("Error", MsgQuota))
       => /\ alert' = ApiErrorAlert(Err("Error", MsgQuota))
          /\ ~realtimeEnabled']_vars


\* The condition of the periodic filter as the specification words it: more
\* than 10 characters and a question mark, an equals sign (half or full
\* width) or a digit.
C11_Qualifies(text) ==
  /\ Len(text) > 10
  /\ \E i \in 1..Len(text) :
       text[i] \in {"?", "U+FF1F", "=", "U+FF1D"} \/ IsDigit(text[i])

\* C11: with a credential set, a periodic attempt calls the completion client
\* for the text the engine recognized exactly when that text is longer than
\* 10 characters and contains '?', a full-width '?', '=', a full-width '=' or
\* a digit.
C11_PeriodicFilter ==
  [][\A s \in 1..MaxPeriodic, raw \in PeriodicTexts :
       (PeriodicRecognized(s, Recognized(raw)) /\ ~KeyMissing(svcKey))
         => (periodic'[s].pc = "ai" <=> C11_Qualifies(raw))]_vars


\* C12: once a periodic result was forwarded, periodic capture is off and no
\* periodic attempt is under way until the user presses the toggle again (the
\* attempt that forwarded the result has ended, and no tick starts another).
C12_NoAttemptAfterForward ==
  autoStopped =>
    /\ ~realtimeEnabled
    /\ \A s \in 1..MaxPeriodic : periodic[s].pc = "idle"


C13_Short(text) == Len(text) < 2

\* What onResult receives from a manual run m whose analysis returned result.
C13_Forwarded(m, result) ==
  /\ csResult'
  /\ \E h \in 1..MaxHandlers :
       /\ handlers[h].pc = "idle"
       /\ handlers'[h].pc = "read"
       /\ handlers'[h].ocr = manual[m].ocr
       /\ handlers'[h].ai.question = manual[m].ocr.text
       /\ handlers'[h].ai.answer = result.answer
       /\ handlers'[h].ai.explanation = result.explanation
       /\ handlers'[h].ai.confidence = result.confidence

\* C13: in manual mode a recognized text that is empty or shorter than 2
\* characters ends the run with the no-text alert, without a request and
\* without a forwarded result; any other text is sent to the completion client
\* once, and when the analysis succeeds the recognition and the analysis are
\* forwarded together, the run ending without a second request.
C13_ManualShortTextFailsFast ==
  [][/\ \A m \in 1..MaxManual, raw \in ManualTexts :
          ManualRecognized(m, Recognized(raw)) =>
            IF C13_Short(Recognized(raw).ocr.text)
              THEN /\ alert' = [title |-> "Error", msg |-> AlertNoText]
                   /\ manual'[m].pc = "idle"
                   /\ ~isProcessing'
                   /\ UNCHANGED <<httpLog, handlers, csResult, stHistory>>
              ELSE /\ UNCHANGED <<handlers, csResult, stHistory>>
                   /\ ~KeyMissing(svcKey) =>
                        /\ manual'[m].pc = "ai"
                        /\ manual'[m].ocr.text = Recognized(raw).ocr.text
                        /\ httpLog' = httpLog \cup {[auth |-> svcKey]}
     /\ \A m \in 1..MaxManual, r \in CameraResponses :
          ManualAnalyzed(m, r) =>
            /\ manual'[m].pc = "idle"
            /\ UNCHANGED httpLog
            /\ IF AnalyzeResponse(r).ok
                 THEN C13_Forwarded(m, AnalyzeResponse(r).result)
                 ELSE UNCHANGED <<handlers, csResult>>]_vars

\* The shutter was pressed twice with periodic capture never switched on: the
\* first text was analyzed and forwarded, the second was too short.
C13_Witness ==
  /\ alert = [title |-> "Error", msg |-> AlertNoText]
  /\ nextTimer = 1
  /\ \E h \in 1..MaxHandlers :
       /\ handlers[h].pc = "read"
       /\ handlers[h].ocr.text = QuestionText


\* The exchange gave an answer: fetch resolved with a 2xx status and a JSON
\* body holding a completion.
C14_Answered(r) ==
  r.net /\ r.json /\ r.status >= 200 /\ r.status <= 299 /\ r.hasChoice

\* The step in which a run ends with recognition and completion succeeded.
C14_RunSucceeds ==
  \/ \E s \in 1..MaxPeriodic, r \in CameraResponses :
       C14_Answered(r) /\ PeriodicAnalyzed(s, r)
  \/ \E m \in 1..MaxManual, r \in CameraResponses :
       C14_Answered(r) /\ ManualAnalyzed(m, r)

\* A step in which a periodic or a manual run ends.
C14_RunEnds ==
  \/ \E s \in 1..MaxPeriodic :
       periodic[s].pc # "idle" /\ periodic'[s].pc = "idle"
  \/ \E m \in 1..MaxManual :
       manual[m].pc # "idle" /\ manual'[m].pc = "idle"

\* The texts recognizeText returns for the texts in front of the camera.
C14_RecognizedTexts ==
  {Recognized(raw).ocr.text : raw \in PeriodicTexts \cup ManualTexts}

\* C14: handleResult is entered only in the step of a run whose recognition
\* and completion both succeeded; the persisted history changes only when such
\* a handleResult writes its entry at the head of the list; and a run that
\* ends in any other way (failed capture, failed recognition, filtered text,
\* failed completion) leaves the persisted history and handleResult alone.
C14_HistoryOnlyFromSuccess ==
  [][/\ (\E h \in 1..MaxHandlers :
           handlers[h].pc = "idle" /\ handlers'[h].pc # "idle")
          => C14_RunSucceeds
     /\ stHistory' # stHistory
          => \E h \in 1..MaxHandlers :
               /\ handlers[h].pc = "read" /\ handlers'[h].pc = "idle"
               /\ handlers[h].ocr.text \in C14_RecognizedTexts \ {<<>>}
               /\ stHistory'.has /\ stHistory'.v # <<>>
               /\ stHistory'.v[1].ocr = handlers[h].ocr
               /\ stHistory'.v[1].ai = handlers[h].ai
     /\ (C14_RunEnds /\ ~C14_RunSucceeds)
          => UNCHANGED <<stHistory, handlers, pending, csResult>>]_vars

\* A run ended on a failed completion while the list stored by an earlier,
\* successful run is in place.
C14_Witness ==
  /\ alert = [title |-> "Error", msg |-> AlertAnalysisFailed]
  /\ stHistory.has /\ Len(stHistory.v) = 1
  /\ \A h \in 1..MaxHandlers : handlers[h].pc = "idle"
  /\ \A m \in 1..MaxManual : manual[m].pc = "idle"


\* C15: a clearHistory whose removeItem succeeds removes the persisted list
\* and, when it completes, leaves the in-memory list empty; as long as the
\* persisted list stays removed (nothing was appended since), the in-memory
\* list is empty after the clear, and a loadHistory that reads the removed
\* list leaves it as it is.
C15_ClearThenLoadEmpty ==
  /\ []((~stHistory.has /\ NotPending("hsClear")) => hsHistory = <<>>)
  /\ [][/\ (ClearHistory /\ pending'[Len(pending')].ok) => ~stHistory'.has
        /\ (ClearHistorySettled /\ Head(pending).ok) => hsHistory' = <<>>
        /\ (HistoryLoaded /\ ~hsLoadSnap.has) => hsHistory' = hsHistory]_vars

\* The store held an appended entry, a clearHistory removed the list and has
\* completed, and a loadHistory issued after it reads the removed list.
C15_Witness ==
  /\ clock > Epoch
  /\ ~stHistory.has
  /\ hsHistory = <<>>
  /\ NotPending("hsClear")
  /\ ~NotPending("hsLoad")
  /\ ~hsLoadSnap.has


\* The calls of initialize (made directly or by recognizeText) that are past
\* the isInitializing test and have not finished: each awaits createWorker or
\* setParameters.
C16_Initializing == {c \in 1..MaxCalls : calls[c].pc \in {"create", "params"}}

\* C16: initialize called while Ready changes nothing and creates no worker;
\* a caller that arrives while another call is initializing polls and starts
\* no second worker; at no time are two calls initializing.
C16_InitializeIdempotent ==
  /\ [](Cardinality(C16_Initializing) <= 1)
  /\ [][\A c \in 1..MaxCalls :
          InitializeCall(c) =>
            /\ (isInitialized /\ worker # 0) =>
                 UNCHANGED <<worker, isInitialized, isInitializing,
                             liveWorkers, nextWorker, calls>>
            /\ C16_Initializing # {} =>
                 /\ calls'[c].pc = "poll"
                 /\ C16_Initializing' = C16_Initializing]_vars


\* C17: worker.recognize is called only while the service is Ready
\* (isInitialized with a worker held); a recognizeText that found the service
\* not Ready and is still not Ready when its initialize has returned ends
\* without calling the engine.
C17_RecognizeRequiresReady ==
  [][\A c \in 1..MaxCalls :
       (calls[c].pc # "engine" /\ calls'[c].pc = "engine")
         => (isInitialized' /\ worker' # 0)]_vars


\* The step in which a call of terminate completes: at once when no worker is
\* held, else after worker.terminate settled.
C18_TerminateCompletes ==
  \E c \in 1..MaxCalls :
    \/ TerminateCall(c) /\ worker = 0
    \/ \E ok \in BOOLEAN : TerminateSettled(c, ok)

\* C18: when a call of terminate has completed, whether worker.terminate
\* resolved or rejected, no worker is held and the service is neither
\* initialized nor initializing, so that the next recognizeText starts an
\* initialization.
C18_TerminateReleases ==
  [][C18_TerminateCompletes
       => (worker' = 0 /\ ~isInitialized' /\ ~isInitializing')]_vars

\* C19: when a confirmed deleteApiKey completes after its removeItem
\* succeeded, and no save was issued meanwhile, no credential is persisted,
\* the service holds no credential (analyzeText fails with the not-configured
\* error) and the settings field is empty; and whenever no credential is
\* persisted and no storage call is pending, the service holds none, so a
\* load reads nothing and analyzeText keeps failing until a credential is
\* saved.
C19_DeleteClearsCredential ==
  /\ []((~stApiKey.has /\ pending = <<>>) => KeyMissing(svcKey))
  /\ [][(DeleteApiKeySettled /\ Head(pending).ok /\ NotPending("seSave"))
          => /\ ~stApiKey'.has
             /\ svcKey' = <<>>
             /\ KeyMissing(svcKey')
             /\ ~HasApiKey'
             /\ seApiKey' = <<>>]_vars

\* The credential was saved, then deleted: the delete has completed and
\* reported it, nothing is persisted and the service holds nothing.
C19_Witness ==
  /\ alert = [title |-> "Success", msg |-> AlertDeleted]
  /\ givenKey = Absent
  /\ ~stApiKey.has
  /\ svcKey = <<>>
  /\ pending = <<>>
  /\ seMounted


\* The step in which the continuation of a rejected storage call runs: the
\* call `who` settles rejected.
C20_Rejected(who) ==
  /\ pending # <<>>
  /\ Head(pending).who = who
  /\ ~Head(pending).ok
  /\ pending' = Tail(pending)

C20_AwaitedCalls ==
  {"seLoad", "seSave", "seDelete", "seClear", "csLoad", "hrRead", "hsLoad",
   "hsClear"}

\* A step in which a write is rejected whose catch only logs: the handler
\* issues no further call.
C20_RejectedWrite ==
  /\ stFailures' > stFailures
  /\ Len(pending') <= Len(pending)

\* C20 (as stated): whenever a storage call is rejected, no dialog is shown
\* to the user.
C20_FailuresAreSilent ==
  [][((\E who \in C20_AwaitedCalls : C20_Rejected(who)) \/ C20_RejectedWrite)
       => alert' = alert]_vars

\* The dialog after a rejected call: an error alert for the credential save,
\* the credential delete and delete-all-data, none for any other call.
C20_AlertAfter(who) ==
  CASE who = "seSave" -> [title |-> "Error", msg |-> AlertSaveFailed]
    [] who = "seDelete" -> [title |-> "Error", msg |-> AlertDeleteFailed]
    [] who = "seClear" -> [title |-> "Error", msg |-> AlertClearFailed]
    [] OTHER -> alert

\* C20 (amended): a rejected storage call never changes what is persisted; a
\* rejected credential save, credential delete or delete-all-data shows its
\* error alert, a rejected preference write, history append, remove-one,
\* clear or load shows nothing; the state in memory stays as the operation
\* set it before the call, except that a rejected load of the credential on
\* the camera screen clears the credential in memory.
C20_FailuresCaught ==
  [][/\ \A who \in C20_AwaitedCalls :
          C20_Rejected(who) =>
            /\ alert' = C20_AlertAfter(who)
            /\ UNCHANGED <<stApiKey, stHistory, stAuto, stSave>>
            /\ UNCHANGED <<seApiKey, seAuto, seSave, csResult, hsHistory>>
            /\ IF who = "csLoad"
                 THEN svcKey' = <<>> /\ csApiKey' = <<>>
                 ELSE UNCHANGED <<svcKey, csApiKey>>
     /\ C20_RejectedWrite =>
          /\ alert' = alert
          /\ UNCHANGED <<stApiKey, stHistory, stAuto, stSave>>
          /\ UNCHANGED <<svcKey, seApiKey, csApiKey, csResult>>]_vars

\* A rejected credential save has shown its error alert; the credential in
\* the field is kept.
C20_Witness ==
  /\ alert = [title |-> "Error", msg |-> AlertSaveFailed]
  /\ stFailures = 1
  /\ seApiKey # <<>>
  /\ pending = <<>>


\* A step in which a periodic attempt fails with an error that is neither an
\* authorization nor a rate-limit error: the camera or the recognition
\* throws, no credential is set, the request fails on the network, or the
\* server answers with a status other than 401, 403 and 429.
C21_OtherFailure ==
  \E s \in 1..MaxPeriodic :
    \/ PeriodicCaptured(s, "throw")
    \/ \E o \in RecognizeOutcomes(PeriodicTexts) :
         /\ ~o.ok \/ (LooksLikeProblem(o.ocr.text) /\ KeyMissing(svcKey))
         /\ PeriodicRecognized(s, o)
    \/ \E r \in CameraResponses :
         /\ ~AnalyzeResponse(r).ok
         /\ ~r.net \/ r.status \notin {401, 403, 429}
         /\ PeriodicAnalyzed(s, r)

\* C21: when a periodic attempt fails with an error other than an
\* authorization or rate-limit error, no alert is shown, periodic capture
\* keeps the setting it had, the timer is kept and the guard is free for the
\* next tick.
C21_OtherErrorsOnlyLogged ==
  [][C21_OtherFailure
       => /\ alert' = alert
          /\ realtimeEnabled' = realtimeEnabled
          /\ timers' = timers
          /\ intervalRef' = intervalRef
          /\ ~processingRef']_vars


\* C22: every result analyzeText returns has a numeric confidence between 0
\* and 1 (0 and 100 hundredths), whatever the content of the successful
\* response; a result without an answer, an explanation or a confidence in
\* the content carries the default instead.
C22_ConfidenceInUnitInterval ==
  (an.pc = "done" /\ an.out.ok)
    => /\ an.out.result.confidence.k = "number"
       /\ an.out.result.confidence.n >= 0
       /\ an.out.result.confidence.n <= 100
       /\ JSONParse(an.resp.content).ok
            => /\ Truthy(an.out.result.answer)
               /\ Truthy(an.out.result.explanation)


\* The capture pipelines under way, periodic and manual.
C23_InFlight ==
  Cardinality({s \in 1..MaxPeriodic : periodic[s].pc # "idle"})
    + Cardinality({m \in 1..MaxManual : manual[m].pc # "idle"})

\* C23: at most one capture pipeline, periodic or manual, is under way at any
\* time, and isProcessing is set for as long as a manual run is under way.
C23_OnePipelineAtATime ==
  /\ C23_InFlight <= 1
  /\ (\E m \in 1..MaxManual : manual[m].pc # "idle") => isProcessing


\* The ids of the entries a stored history holds.
C24_Ids(st) == IF st.has THEN {st.v[i].id : i \in 1..Len(st.v)} ELSE {}

\* C24: an entry leaves the persisted history only when a clear removes the
\* list, when deleteItem is called with its id, or when an append to a list
\* of 20 entries evicts it as the oldest one.
C24_EntriesNotDropped ==
  [][\A id \in C24_Ids(stHistory) \ C24_Ids(stHistory') :
       \/ ~stHistory'.has
       \/ id \in Deletable(hsHistory) /\ DeleteItem(id)
       \/ /\ \E h \in 1..MaxHandlers : HandleResultRead(h)
          /\ Len(stHistory.v) = HistoryCap
          /\ id = stHistory.v[HistoryCap].id]_vars


C25_Empty(st) == ~st.has \/ st.v = <<>>

\* C25: once delete-all-data has completed and until a result is appended,
\* the persisted history is empty, and a load of the history in that time
\* leaves the History screen with an empty list.
C25_DeleteAllDataSticks ==
  /\ []((wiped /\ NotPending("seClear")) => C25_Empty(stHistory))
  /\ [][(wiped /\ HistoryLoaded /\ Head(pending).ok /\ C25_Empty(hsLoadSnap))
          => hsHistory' = <<>>]_vars


\* C26: a completed credential delete or delete-all-data leaves the service
\* without a credential; only a successful save and a load of the persisted
\* credential give the service a credential; and a request sent while no
\* storage call is pending carries the credential that is persisted.
C26_DeletedCredentialStaysOut ==
  /\ [][((DeleteApiKeySettled \/ ClearAllDataSettled) /\ Head(pending).ok)
          => svcKey' = <<>>]_vars
  /\ [][(svcKey' # svcKey /\ svcKey' # <<>>)
          => (SaveApiKeySettled \/ CameraKeyLoaded \/ SettingsLoaded)]_vars
  /\ [][(httpLog' # httpLog /\ pending = <<>>)
          => stApiKey = Stored(svcKey)]_vars


\* A periodic attempt is under way.
C27_AttemptInFlight == \E s \in 1..MaxPeriodic : periodic[s].pc # "idle"

\* C27: the guard of periodic capture is held exactly while an attempt is
\* under way, every step that ends an attempt releases it, and, the I/O of
\* the attempt settling, a held guard is eventually free.
C27_GuardReleased ==
  /\ [](processingRef <=> C27_AttemptInFlight)
  /\ [][\A s \in 1..MaxPeriodic :
          (periodic[s].pc # "idle" /\ periodic'[s].pc = "idle")
            => ~processingRef']_vars
  /\ processingRef ~> ~processingRef

\* An attempt has started and ended with periodic capture still on: the
\* guard is free and no attempt is under way.
C27_Witness ==
  /\ lastProcessTime # 0
  /\ realtimeEnabled
  /\ ~processingRef
  /\ ~C27_AttemptInFlight


\* C28: in every state of the OCR service, whatever the interleaving of its
\* calls, isInitialized implies that a worker is held, and at most one worker
\* is alive.
C28_ReadyHoldsOneWorker ==
  /\ isInitialized => worker # 0
  /\ Cardinality(liveWorkers) <= 1

\* C29: the persisted save-history flag has no influence on history.  In
\* sessions that differ only in the stored flag, the flag stays as it was and
\* every handleResult whose read and write both went through stores the new
\* entry in front of the list it read, cut to the cap: a value that depends
\* on the list read and the result only, also when the flag is stored false.
C29_Written(h) ==
  Stored(TrimHistory(<<[id |-> clock', ocr |-> handlers[h].ocr,
                        ai |-> handlers[h].ai, ts |-> "iso"]>>
                       \o C1_ReadList(h)))

C30_Ticks ==
  \E s \in 1..MaxPeriodic : periodic[s].pc = "idle" /\ periodic'[s].pc = "capture"

C30_OneTimerWhileEnabled ==
  /\ [](Cardinality(timers) <= 1)
  /\ [](timers # {} => realtimeEnabled)
  /\ [][C30_Ticks => realtimeEnabled]_vars

====
